---- MODULE Spec2Model ----
(***************************************************************************)
(* Model of the Starlink monitor's background collector                    *)
(* (src/src/data_collector.py) and of the tables of the store it writes    *)
(* (src/src/database.py).                                                  *)
(*                                                                         *)
(* Time is wall-clock time in milliseconds.  Every read of datetime.now()  *)
(* returns an instant later than the previous read; the instants the clock *)
(* can show are the finite set Instants.  None (Python's None) is -1.      *)
(***************************************************************************)
EXTENDS Integers, Sequences, FiniteSets, TLC

\* ------------------------------------------------------------------ bounds
\* Loop threads that can be alive at the same time.
MaxThreads == 1
\* Reads of the clock in one run: the instants of Clock that can be shown.
Horizon == 4

\* --------------------------------------------------------------- constants
None == -1

\* data_collector.py:33-37
outage_severity_threshold == [minor |-> 60, major |-> 300, critical |-> 1800]
\* data_collector.py:42
weather_collection_interval == 10
\* data_collector.py:46
performance_analysis_interval == 60

Seconds(n) == n * 1000

\* The instants (ms) the clock shows after process start (instant 0), in
\* the order it shows them.  The first four are 30 s, 60 s, 1740.5 s,
\* 1770.5 s and 1800.5 s apart; the later ones add gaps of exactly 1800 s
\* and 300 s.
Clock == << 1000, 31000, 61000, 1801500, 1861000, 2161000 >>
Instants == { Clock[i] : i \in 1..Horizon }

\* datetime.now(): what a read of the clock returns when the last read
\* returned tm: the next instant (no read once the last instant was shown).
ClockReads(tm) ==
    { i \in Instants : i > tm /\ \A j \in Instants : ~(tm < j /\ j < i) }

\* The loop threads a run can hold: MaxThreads, and a spare one that only
\* the runs of Lifecycle use.
Threads == 1..(MaxThreads + 1)

\* What starlink_grpc.get_status() can do in a tick: raise, return a status
\* without the pop_ping_latency_ms field, or return one with a latency (ms).
FetchRaises == -2
NoLatencyField == -3
Latencies == { 0, 25, 30, 2000 }
FetchResults == { FetchRaises, NoLatencyField } \cup Latencies

\* Whether the wall-clock minute is 0 at the end of the iteration and, if so,
\* whether _calculate_daily_stats raises (store locked or unreachable).
RollupOutcomes == { "not_due", "ok", "raises" }

VARIABLES
    now,                            \* last value datetime.now() returned
    running,                        \* self.running
    thread,                         \* self.thread: id of the last thread started, 0 = None
    pc,                             \* position of each loop thread
    caller_pc,                      \* position of the thread calling start()/stop()
    last_connection_state,          \* self.last_connection_state (TRUE = UP)
    outage_start_time,              \* self.outage_start_time
    consecutive_failures,           \* self.consecutive_failures
    weather_collection_counter,     \* self.weather_collection_counter
    performance_analysis_counter,   \* self.performance_analysis_counter
    latency_ms,                     \* locals of the collect_data_point call that
    severity,                       \*   returned in the last step, None / "none"
                                    \*   where unassigned
    raised,                         \* the exception of the last step: what line 260
                                    \*   caught, or what stop() let through
    metrics,                        \* table metrics
    outages,                        \* table outages
    scenario,                       \* observer: timestamps of the ticks of the
                                    \*   end-to-end scenario seen so far
    args,                           \* a computation studied on its own: the
    returned                        \*   arguments of the call and what it returned

detector == << last_connection_state, outage_start_time >>
counters == << consecutive_failures, weather_collection_counter,
               performance_analysis_counter >>
threads  == << running, thread, pc >>
locals   == << latency_ms, severity, raised >>
\* The frame of collect_data_point is gone once another step is taken.
NoFrame  == latency_ms' = None /\ severity' = "none" /\ raised' = "none"
\* The computations studied on their own take no part in a run of the
\* collector.
aside    == << args, returned >>
NoCall   == [ call |-> "none" ]
Pending  == [ done |-> FALSE ]
vars == << now, threads, caller_pc, detector, counters, locals, metrics,
           outages, scenario, aside >>

\* ------------------------------------------------------- pure computations

\* data_collector.py:152: latency_ms = status.pop_ping_latency_ms if hasattr(...) else 0
LatencyOf(status) == IF status = NoLatencyField THEN 0 ELSE status

\* ConnectionOk with the lower bound included.
ConnectionOk_from_zero(latency) == latency >= 0 /\ latency < 2000

\* data_collector.py:181
ConnectionOk(latency) == latency > 0 /\ latency < 2000

\* data_collector.py:196-204; the duration is a float number of seconds,
\* here in milliseconds.
Severity(duration) ==
    IF duration >= Seconds(outage_severity_threshold.critical) THEN "critical"
    ELSE IF duration >= Seconds(outage_severity_threshold.major) THEN "major"
    ELSE "minor"

\* record_outage with the end of the outage dropped: the row is written
\* open.
record_outage_open(table, start_time, end_time, reason) ==
    Append(table, [ start_time |-> start_time,
                    end_time |-> None,
                    duration_seconds |-> None,
                    reason |-> reason ])

\* record_outage with the duration rounded to the nearest second.
record_outage_rounded(table, start_time, end_time, reason) ==
    Append(table, [ start_time |-> start_time,
                    end_time |-> end_time,
                    duration_seconds |->
                        IF end_time # None
                        THEN (end_time - start_time + 500) \div 1000
                        ELSE None,
                    reason |-> reason ])

\* database.py:303-313: int(total_seconds()) truncates to whole seconds.
record_outage(table, start_time, end_time, reason) ==
    Append(table, [ start_time |-> start_time,
                    end_time |-> end_time,
                    duration_seconds |->
                        IF end_time # None
                        THEN (end_time - start_time) \div 1000
                        ELSE None,
                    reason |-> reason ])

\* database.py:130-142; of the columns of a sample only its timestamp is
\* kept.
insert_metric(table, ts) ==
    Append(table, [ timestamp |-> ts ])

\* ExceptHandler without the test of the flag: every failure restarts the
\* outage.
ExceptHandler_unguarded(lcs, ost, tm) == [ lcs |-> FALSE, ost |-> tm ]

\* The larger and the smaller of two numbers (Python's max and min).
Max(a, b) == IF a >= b THEN a ELSE b
Min(a, b) == IF a <= b THEN a ELSE b

\* calculate_quality_score with "if" for every "elif" of the latency
\* bucket: the penalties of the bucket add up.
calculate_quality_score_cumulative(latency, download_mbps, upload_mbps, obstruction, snr_good) ==
    LET s1 == 100 - (IF latency > 100 THEN 30 ELSE 0)
                  - (IF latency > 75 THEN 20 ELSE 0)
                  - (IF latency > 50 THEN 10 ELSE 0)
        s2 == s1 - (IF download_mbps < 10 THEN 25
                    ELSE IF download_mbps < 25 THEN 15
                    ELSE IF download_mbps < 50 THEN 5 ELSE 0)
        s3 == s2 - (IF upload_mbps < 3 THEN 25
                    ELSE IF upload_mbps < 8 THEN 15
                    ELSE IF upload_mbps < 15 THEN 5 ELSE 0)
        s4 == s3 - (IF obstruction > 100 THEN 20
                    ELSE IF obstruction > 50 THEN 15
                    ELSE IF obstruction > 10 THEN 10
                    ELSE IF obstruction > 1 THEN 5 ELSE 0)
        s5 == s4 - (IF ~snr_good THEN 10 ELSE 0)
    IN  Max(0, Min(100, s5))

\* data_collector.py:52-94 (and the same text at app.py:68-109).  The
\* obstruction is in tenths of a percent, so that the threshold 0.1 is 1.
calculate_quality_score(latency, download_mbps, upload_mbps, obstruction, snr_good) ==
    LET s1 == IF latency > 100 THEN 100 - 30
              ELSE IF latency > 75 THEN 100 - 20
              ELSE IF latency > 50 THEN 100 - 10
              ELSE 100
        s2 == IF download_mbps < 10 THEN s1 - 25
              ELSE IF download_mbps < 25 THEN s1 - 15
              ELSE IF download_mbps < 50 THEN s1 - 5
              ELSE s1
        s3 == IF upload_mbps < 3 THEN s2 - 25
              ELSE IF upload_mbps < 8 THEN s2 - 15
              ELSE IF upload_mbps < 15 THEN s2 - 5
              ELSE s2
        s4 == IF obstruction > 100 THEN s3 - 20
              ELSE IF obstruction > 50 THEN s3 - 15
              ELSE IF obstruction > 10 THEN s3 - 10
              ELSE IF obstruction > 1 THEN s3 - 5
              ELSE s3
        s5 == IF ~snr_good THEN s4 - 10 ELSE s4
    IN  Max(0, Min(100, s5))

\* Python's sum of a list.
RECURSIVE Sum(_)
Sum(seq) == IF seq = << >> THEN 0 ELSE seq[1] + Sum(Tail(seq))

\* data_collector.py:115-116: seq[-60:], the last 60 elements of a list.
RecentWindow == 60
Last(seq, n) == SubSeq(seq, Max(1, Len(seq) - n + 1), Len(seq))

\* data_collector.py:122: sum(xs) / len(xs) / 1e6 as the exact quotient
\* num / den, in Mbps, of a list in bit/s.
MeanMbps(seq) == [ num |-> Sum(seq), den |-> Len(seq) * 1000000 ]

\* data_collector.py:136-137: a throughput of the status snapshot in Mbps.
InstantMbps(bps) == [ num |-> bps, den |-> 1000000 ]

\* The samples of a list above a bound.
Above(seq, bound) == SelectSeq(seq, LAMBDA x : x > bound)

\* HistorySpeed with the means taken over the whole window, not over the
\* samples above 1 Mbps.
HistorySpeed_whole_window(history) ==
    IF history.kind # "data" \/ history.downlink = << >> \/ history.uplink = << >>
    THEN [ kind |-> "none" ]
    ELSE
    LET active_downlink == Above(history.downlink, 1000000)
        active_uplink   == Above(history.uplink, 1000000)
        recent_downlink == Above(Last(history.downlink, RecentWindow), 0)
        recent_uplink   == Above(Last(history.uplink, RecentWindow), 0)
    IN
    IF active_downlink # << >> /\ active_uplink # << >>
    THEN [ kind |-> "measured",
           download_mbps |-> MeanMbps(history.downlink),
           upload_mbps |-> MeanMbps(history.uplink) ]
    ELSE IF recent_downlink # << >> /\ recent_uplink # << >>
    THEN [ kind |-> "measured",
           download_mbps |-> MeanMbps(recent_downlink),
           upload_mbps |-> MeanMbps(recent_uplink) ]
    ELSE [ kind |-> "none" ]

\* data_collector.py:98-127 (and app.py:113-152, which also returns peaks
\* and a label): the speeds the bulk history gives, "none" when the code
\* falls through to the status snapshot.  history.kind is what
\* history_bulk_data did: "raises", "short" (nothing, or fewer than two
\* parts), or "data" with the two throughput lists of its second part.
HistorySpeed(history) ==
    IF history.kind # "data" \/ history.downlink = << >> \/ history.uplink = << >>
    THEN [ kind |-> "none" ]
    ELSE
    LET active_downlink == Above(history.downlink, 1000000)
        active_uplink   == Above(history.uplink, 1000000)
        recent_downlink == Above(Last(history.downlink, RecentWindow), 0)
        recent_uplink   == Above(Last(history.uplink, RecentWindow), 0)
    IN
    IF active_downlink # << >> /\ active_uplink # << >>
    THEN [ kind |-> "measured",
           download_mbps |-> MeanMbps(active_downlink),
           upload_mbps |-> MeanMbps(active_uplink) ]
    ELSE IF recent_downlink # << >> /\ recent_uplink # << >>
    THEN [ kind |-> "measured",
           download_mbps |-> MeanMbps(recent_downlink),
           upload_mbps |-> MeanMbps(recent_uplink) ]
    ELSE [ kind |-> "none" ]

\* data_collector.py:133-138 and app.py:155-167: the speeds of the status
\* snapshot; a throughput the snapshot lacks reads as 0.
StatusSpeed(status) ==
    [ kind |-> "measured",
      download_mbps |-> InstantMbps(IF status.has_downlink THEN status.downlink ELSE 0),
      upload_mbps |-> InstantMbps(IF status.has_uplink THEN status.uplink ELSE 0) ]

\* data_collector.py:96-141: DataCollector.get_speed_data.
get_speed_data(history, status) ==
    LET h == HistorySpeed(history)
    IN  IF h.kind = "measured" THEN h
        ELSE IF status.kind = "snapshot" THEN StatusSpeed(status)
        ELSE [ kind |-> "measured",
               download_mbps |-> InstantMbps(0),               \* line 141
               upload_mbps |-> InstantMbps(0) ]

\* app.py:111-173: get_speed_data of the web application.
app_get_speed_data(history, status) ==
    LET h == HistorySpeed(history)
    IN  IF h.kind = "measured" THEN h
        ELSE IF status.kind = "snapshot" THEN StatusSpeed(status)
        ELSE [ kind |-> "none" ]                               \* line 173

\* database.py:328-336: record_performance_event; the row is its event type
\* and its details (the time of the insertion is left out).
record_performance_event(table, event_type, details) ==
    Append(table, [ event_type |-> event_type, details |-> details ])

\* StoreDataPoint with the quality test as "<= 50".
StoreDataPoint_at_most_50(db, sample, ts, fails_at) ==
    LET poor   == sample.quality_score <= 50
        high   == sample.download_mbps > 50 \/ sample.upload_mbps > 20
        second == IF poor THEN 3 ELSE 2
        stored == [ db EXCEPT !.metrics = insert_metric(db.metrics, ts) ]
        first  == IF poor
                  THEN [ stored EXCEPT !.events =
                           record_performance_event(stored.events, "poor_performance",
                               [ quality_score |-> sample.quality_score,
                                 latency_ms |-> sample.latency_ms,
                                 download_mbps |-> sample.download_mbps,
                                 upload_mbps |-> sample.upload_mbps,
                                 obstruction_pct |-> sample.obstruction_pct ]) ]
                  ELSE stored
        last   == IF high
                  THEN [ first EXCEPT !.events =
                           record_performance_event(first.events, "high_speed",
                               [ download_mbps |-> sample.download_mbps,
                                 upload_mbps |-> sample.upload_mbps ]) ]
                  ELSE first
    IN  IF fails_at = 1 THEN [ db |-> db, raised |-> TRUE ]
        ELSE IF poor /\ fails_at = 2 THEN [ db |-> stored, raised |-> TRUE ]
        ELSE IF high /\ fails_at = second THEN [ db |-> first, raised |-> TRUE ]
        ELSE [ db |-> last, raised |-> FALSE ]

\* data_collector.py:226-256: the end of collect_data_point's try block,
\* which stores the sample and then its performance events, each in a
\* transaction of its own.  db is the tables metrics and events; fails_at
\* is the rank of the database write that raises (0, or a rank the tick
\* does not reach: none does).  An exception leaves the block at once, for
\* the except clause of line 260.
StoreDataPoint(db, sample, ts, fails_at) ==
    LET poor   == sample.quality_score < 50
        high   == sample.download_mbps > 50 \/ sample.upload_mbps > 20
        second == IF poor THEN 3 ELSE 2
        stored == [ db EXCEPT !.metrics = insert_metric(db.metrics, ts) ]
        first  == IF poor
                  THEN [ stored EXCEPT !.events =
                           record_performance_event(stored.events, "poor_performance",
                               [ quality_score |-> sample.quality_score,
                                 latency_ms |-> sample.latency_ms,
                                 download_mbps |-> sample.download_mbps,
                                 upload_mbps |-> sample.upload_mbps,
                                 obstruction_pct |-> sample.obstruction_pct ]) ]
                  ELSE stored
        last   == IF high
                  THEN [ first EXCEPT !.events =
                           record_performance_event(first.events, "high_speed",
                               [ download_mbps |-> sample.download_mbps,
                                 upload_mbps |-> sample.upload_mbps ]) ]
                  ELSE first
    IN  IF fails_at = 1 THEN [ db |-> db, raised |-> TRUE ]
        ELSE IF poor /\ fails_at = 2 THEN [ db |-> stored, raised |-> TRUE ]
        ELSE IF high /\ fails_at = second THEN [ db |-> first, raised |-> TRUE ]
        ELSE [ db |-> last, raised |-> FALSE ]

\* database.py:230 and 226: date(timestamp) and timedelta(days=7), of
\* timestamps in hours since the midnight that opens day 0.
DateOf(timestamp) == timestamp \div 24
RollupWindow == 7 * 24

\* database.py:231-242: the aggregates of the samples of one date.  The
\* average is kept as the exact quotient sum / data_points; the download,
\* upload, quality and obstruction columns are aggregated the same way as
\* the latency and are left out.  The INSERT of lines 253-258 names no
\* outage column, so the two of them take the default of the schema
\* (database.py:61-62).
DailyRow(samples) ==
    LET latencies == [ i \in DOMAIN samples |-> samples[i].latency_ms ]
        values    == { latencies[i] : i \in DOMAIN latencies }
    IN  [ avg_latency_ms |-> [ num |-> Sum(latencies), den |-> Len(latencies) ],
          max_latency_ms |-> CHOOSE v \in values : \A w \in values : w <= v,
          min_latency_ms |-> CHOOSE v \in values : \A w \in values : v <= w,
          total_outage_minutes |-> 0,
          outage_count   |-> 0,
          data_points    |-> Len(latencies) ]

\* _calculate_daily_stats as a rebuild of the table: the rows of the dates
\* outside the selection are dropped.
calculate_daily_stats_rebuilt(table, daily_stats, tm) ==
    LET start_date == tm - RollupWindow
        selected   == SelectSeq(table, LAMBDA m : m.timestamp >= start_date)
        dates      == { DateOf(selected[i].timestamp) : i \in DOMAIN selected }
    IN  [ d \in dates |->
            DailyRow(SelectSeq(selected, LAMBDA m : DateOf(m.timestamp) = d)) ]

\* database.py:222-259: _calculate_daily_stats at the instant tm.  The table
\* daily_stats, whose date column is UNIQUE, is a function from dates to
\* rows; INSERT OR REPLACE gives each date of the selection its new row and
\* leaves the other rows alone.
calculate_daily_stats(table, daily_stats, tm) ==
    LET start_date == tm - RollupWindow
        selected   == SelectSeq(table, LAMBDA m : m.timestamp >= start_date)
        dates      == { DateOf(selected[i].timestamp) : i \in DOMAIN selected }
    IN  [ d \in DOMAIN daily_stats \cup dates |->
            IF d \in dates
            THEN DailyRow(SelectSeq(selected, LAMBDA m : DateOf(m.timestamp) = d))
            ELSE daily_stats[d] ]

\* database.py:372-386: cleanup_old_data at the instant tm (hours): the
\* samples and the outages older than days_to_keep days are deleted; table
\* daily_stats is not written.
cleanup_old_data(table, outage_table, tm, days_to_keep) ==
    LET cutoff_date == tm - days_to_keep * 24
        kept        == SelectSeq(table, LAMBDA m : m.timestamp >= cutoff_date)
        kept_outages == SelectSeq(outage_table, LAMBDA o : o.start_time >= cutoff_date)
    IN  [ metrics |-> kept, outages |-> kept_outages,
          deleted_metrics |-> Len(table) - Len(kept),
          deleted_outages |-> Len(outage_table) - Len(kept_outages) ]

\* app.py:228: valid_metrics.
valid_metrics ==
    { "download_mbps", "upload_mbps", "latency_ms", "quality_score", "obstruction_pct" }

\* historical_trends with the validation of the metric left out.
historical_trends_unvalidated(query, store_ok) ==
    LET metric == IF query.metric = "absent" THEN "download_mbps" ELSE query.metric
    IN  IF ~query.days_is_int
        THEN [ status |-> 500, error |-> TRUE, queried |-> << >> ]
        ELSE IF store_ok /\ metric \in valid_metrics \cup { "timestamp", "id" }
        THEN [ status |-> 200, error |-> FALSE, queried |-> << metric >> ]
        ELSE [ status |-> 500, error |-> TRUE, queried |-> << metric >> ]

\* app.py:219-241: the route /api/historical/trends.  query is the query
\* string: its metric ("absent" when the parameter is not given, which reads
\* as download_mbps) and whether its days parameter parses as an integer;
\* store_ok tells whether the store answers.  The value is the status of the
\* response, whether its body is an error, and the metrics that
\* get_trend_data (database.py:388-413) put into a query of the store, which
\* raises on a name that is not a column of metrics.
historical_trends(query, store_ok) ==
    LET metric == IF query.metric = "absent" THEN "download_mbps" ELSE query.metric
    IN  IF ~query.days_is_int                                   \* line 225
        THEN [ status |-> 500, error |-> TRUE, queried |-> << >> ]
        ELSE IF metric \notin valid_metrics                      \* line 229
        THEN [ status |-> 400, error |-> TRUE, queried |-> << >> ]
        ELSE IF store_ok
        THEN [ status |-> 200, error |-> FALSE, queried |-> << metric >> ]
        ELSE [ status |-> 500, error |-> TRUE, queried |-> << metric >> ]

\* SQL NULL, which sqlite3 hands to Python as None: the value of AVG and of
\* SUM over no row.
SqlNull == [ null |-> TRUE ]

\* strftime('%H', timestamp), of timestamps in hours (database.py:513).
HourOf(timestamp) == timestamp % 24

\* AVG of a column over rows: NULL over no row, else the exact quotient.
SqlAvg(values) ==
    IF values = << >> THEN SqlNull
    ELSE [ num |-> Sum(values), den |-> Len(values) ]

\* Python's round(x, 0) of the quotient num / den >= 0: to the nearest
\* integer, a half going to the even one.
RoundHalfEven(num, den) ==
    LET q == num \div den
        r == num % den
    IN  IF 2 * r > den \/ (2 * r = den /\ q % 2 = 1) THEN q + 1 ELSE q

\* database.py:338-370: get_summary_stats over the window that starts at
\* start_time; of the averages only that of the quality score is kept, the
\* others being computed the same way.
get_summary_stats(table, outage_table, start_time) ==
    LET rows == SelectSeq(table, LAMBDA m : m.timestamp >= start_time)
        outs == SelectSeq(outage_table, LAMBDA o : o.start_time >= start_time)
    IN  [ total_measurements |-> Len(rows),
          avg_quality |-> SqlAvg([ i \in DOMAIN rows |-> rows[i].quality_score ]),
          outage_count |-> Len(outs),
          total_outage_seconds |->                             \* COALESCE
              Sum([ i \in DOMAIN outs |-> outs[i].duration_seconds ]) ]

\* app.py:197-217: the route /api/historical/summary.  stats.get(key, 0)
\* returns the None the store put under the key, and round(None, 1) raises
\* TypeError, which the except clause of line 216 answers with 500.
historical_summary(table, outage_table, start_time) ==
    LET stats == get_summary_stats(table, outage_table, start_time)
    IN  IF stats.avg_quality = SqlNull
        THEN [ status |-> 500, error |-> TRUE ]
        ELSE [ status |-> 200, error |-> FALSE,
               total_measurements |-> stats.total_measurements,
               avg_quality_score |->
                   RoundHalfEven(stats.avg_quality.num, stats.avg_quality.den),
               outage_count |-> stats.outage_count,
               total_outage_seconds |-> stats.total_outage_seconds ]

\* ORDER BY avg_quality of database.py:520, on the groups of avgs: the hours
\* of the set by rising average (SQLite leaves the order of equal averages
\* open; the hour breaks the tie here).
RECURSIVE WorstFirst(_, _)
WorstFirst(hours, avgs) ==
    IF hours = {} THEN << >>
    ELSE LET before(h, g) ==
                 \/ avgs[h].num * avgs[g].den < avgs[g].num * avgs[h].den
                 \/ /\ avgs[h].num * avgs[g].den = avgs[g].num * avgs[h].den
                    /\ h <= g
             first == CHOOSE h \in hours : \A g \in hours : before(h, g)
         IN  << first >> \o WorstFirst(hours \ { first }, avgs)

\* database.py:510-532: the poor-performance hours.  The WHERE clause keeps
\* the samples of the window whose quality_score is below 60, and the
\* groups, their counts and their averages are of those samples only.
PoorHours(table, start_time) ==
    LET rows   == SelectSeq(table, LAMBDA m : m.timestamp >= start_time
                                               /\ m.quality_score < 60)
        group(h) == SelectSeq(rows, LAMBDA m : HourOf(m.timestamp) = h)
        hours  == { h \in { HourOf(rows[i].timestamp) : i \in DOMAIN rows } :
                      Len(group(h)) > 5 }                        \* HAVING
        avgs   == [ h \in hours |->
                      SqlAvg([ i \in DOMAIN group(h) |-> group(h)[i].quality_score ]) ]
        ranked == WorstFirst(hours, avgs)
        top    == SubSeq(ranked, 1, Min(3, Len(ranked)))        \* LIMIT 3
    IN  [ i \in DOMAIN top |->
            [ type |-> "poor_performance_time", hour |-> top[i],
              avg_quality |-> avgs[top[i]],
              severity |-> IF avgs[top[i]].num < 40 * avgs[top[i]].den
                           THEN "high" ELSE "medium" ] ]

\* database.py:504-570: get_performance_insights at the instant tm, over
\* days days.  raised tells that the call ended in an exception: comparing
\* the None of an average over no row with 1 (line 544) raises TypeError.
\* obstruction_pct is in whole percents.
get_performance_insights(table, outage_table, tm, days) ==
    LET start_time == tm - days * 24
        poor       == PoorHours(table, start_time)
        obstructed == SelectSeq(table, LAMBDA m : m.timestamp >= start_time
                                                   /\ m.obstruction_pct > 0)
        avg_obstruction ==
            SqlAvg([ i \in DOMAIN obstructed |-> obstructed[i].obstruction_pct ])
        outs       == SelectSeq(outage_table, LAMBDA o : o.start_time >= start_time)
        with_obstruction ==
            IF avg_obstruction.num > avg_obstruction.den        \* line 544
            THEN Append(poor,
                   [ type |-> "obstruction_issue",
                     severity |-> IF avg_obstruction.num > 5 * avg_obstruction.den
                                  THEN "high" ELSE "medium" ])
            ELSE poor
    IN  IF avg_obstruction = SqlNull
        THEN [ raised |-> TRUE, insights |-> << >> ]
        ELSE [ raised |-> FALSE,
               insights |->
                   IF Len(outs) > 5                             \* line 561
                   THEN Append(with_obstruction,
                          [ type |-> "frequent_outages", outage_count |-> Len(outs),
                            severity |-> "high" ])
                   ELSE with_obstruction ]

\* app.py:447-459: the route /api/historical/insights.
insights_route(table, outage_table, tm, days) ==
    LET r == get_performance_insights(table, outage_table, tm, days)
    IN  IF r.raised THEN [ status |-> 500, error |-> TRUE, data |-> << >> ]
        ELSE [ status |-> 200, error |-> FALSE, data |-> r.insights ]

\* calculate_performance_grade with the latency bounds included.
calculate_performance_grade_inclusive(latency, download, upload, quality_score) ==
    IF quality_score >= 90 /\ latency <= 30 /\ download > 50 THEN "A"
    ELSE IF quality_score >= 80 /\ latency <= 50 /\ download > 25 THEN "B"
    ELSE IF quality_score >= 70 /\ latency <= 75 /\ download > 15 THEN "C"
    ELSE IF quality_score >= 60 /\ latency <= 100 /\ download > 10 THEN "D"
    ELSE "F"

\* app.py:282-293: calculate_performance_grade.
calculate_performance_grade(latency, download, upload, quality_score) ==
    IF quality_score >= 90 /\ latency < 30 /\ download > 50 THEN "A"
    ELSE IF quality_score >= 80 /\ latency < 50 /\ download > 25 THEN "B"
    ELSE IF quality_score >= 70 /\ latency < 75 /\ download > 15 THEN "C"
    ELSE IF quality_score >= 60 /\ latency < 100 /\ download > 10 THEN "D"
    ELSE "F"

\* Dates as days counted from Monday 2024-01-01: date.weekday() (Monday is
\* 0) and strftime('%Y-%m') of app.py:383 and 409, the month being numbered
\* from January 2024.
Weekday(date) == date % 7
MonthOf(date) == IF date < 31 THEN 1 ELSE IF date < 60 THEN 2 ELSE 3

\* Python's round(x, 1) of the quotient num / den, in tenths.
RoundTenths(num, den) == RoundHalfEven(10 * num, den)

\* The values of a column of a list of daily rows.
Column(stats, name) == [ i \in DOMAIN stats |-> stats[i][name] ]

\* database.py:199-203 and 212-216: the rows of daily_stats from the latest
\* date to the earliest (ORDER BY date DESC).
RECURSIVE LatestFirst(_)
LatestFirst(daily_stats) ==
    IF DOMAIN daily_stats = {} THEN << >>
    ELSE LET last == CHOOSE d \in DOMAIN daily_stats :
                         \A e \in DOMAIN daily_stats : e <= d
         IN  << [ date |-> last ] @@ daily_stats[last] >>
             \o LatestFirst([ d \in DOMAIN daily_stats \ { last } |-> daily_stats[d] ])

\* calculate_week_summary with the days weighted by their data_points.
calculate_week_summary_weighted(week_stats, week_start) ==
    [ week_start |-> week_start,
      days_with_data |-> Len(week_stats),
      avg_latency_ms |->
          RoundTenths(Sum([ i \in DOMAIN week_stats |->
                              week_stats[i].avg_latency_ms * week_stats[i].data_points ]),
                      Sum(Column(week_stats, "data_points"))),
      total_outages |-> Sum(Column(week_stats, "outage_count")),
      total_outage_minutes |-> Sum(Column(week_stats, "total_outage_minutes")) ]

\* app.py:295-319: calculate_week_summary of a list of daily rows that is
\* not empty.  The averages are rounded to one decimal (kept in tenths); of
\* the four of them that of the latency is kept, and the grade is left out.
calculate_week_summary(week_stats, week_start) ==
    [ week_start |-> week_start,
      days_with_data |-> Len(week_stats),
      avg_latency_ms |->
          RoundTenths(Sum(Column(week_stats, "avg_latency_ms")), Len(week_stats)),
      total_outages |-> Sum(Column(week_stats, "outage_count")),
      total_outage_minutes |-> Sum(Column(week_stats, "total_outage_minutes")) ]

\* app.py:321-344: calculate_month_summary.
calculate_month_summary(month_stats, month_key) ==
    [ month |-> month_key,
      days_with_data |-> Len(month_stats),
      avg_latency_ms |->
          RoundTenths(Sum(Column(month_stats, "avg_latency_ms")), Len(month_stats)),
      total_outages |-> Sum(Column(month_stats, "outage_count")),
      total_outage_minutes |-> Sum(Column(month_stats, "total_outage_minutes")) ]

\* app.py:378-394: the loop over the daily rows that cuts them into weeks,
\* and the summary of the last week.
RECURSIVE WeeklyLoop(_, _, _, _)
WeeklyLoop(stats, weekly_reports, current_week, current_week_start) ==
    IF stats = << >>
    THEN IF current_week # << >>
         THEN Append(weekly_reports,
                     calculate_week_summary(current_week, current_week_start))
         ELSE weekly_reports
    ELSE LET stat == Head(stats)
             week_start == stat.date - Weekday(stat.date)
         IN  IF current_week_start # week_start
             THEN WeeklyLoop(Tail(stats),
                     IF current_week # << >>
                     THEN Append(weekly_reports,
                            calculate_week_summary(current_week, current_week_start))
                     ELSE weekly_reports,
                     << stat >>, week_start)
             ELSE WeeklyLoop(Tail(stats), weekly_reports,
                             Append(current_week, stat), current_week_start)

\* app.py:402-424: the monthly report: the rows of each month in the order
\* of the list, a summary per month, the latest month first.
RECURSIVE MonthlySorted(_, _)
MonthlySorted(stats, months) ==
    IF months = {} THEN << >>
    ELSE LET last == CHOOSE m \in months : \A n \in months : n <= m
         IN  << calculate_month_summary(
                    SelectSeq(stats, LAMBDA s : MonthOf(s.date) = last), last) >>
             \o MonthlySorted(stats, months \ { last })

\* app.py:346-431: the route /api/historical/reports for the weekly and the
\* monthly reports, on the table daily_stats that get_daily_stats returns.
get_reports(report_type, daily_stats) ==
    LET stats == LatestFirst(daily_stats)
    IN  IF report_type = "weekly"
        THEN WeeklyLoop(stats, << >>, << >>, None)
        ELSE MonthlySorted(stats, { MonthOf(stats[i].date) : i \in DOMAIN stats })

\* What a method of the speed test hands back: None, or a result with its
\* status and its measurements (ms, Mbps).
NoResult == [ status |-> "none", ping_ms |-> 0, download_mbps |-> 0, error_message |-> "none" ]
MethodResult(status, ping_ms, download_mbps) ==
    [ status |-> status, ping_ms |-> ping_ms, download_mbps |-> download_mbps,
      error_message |-> "none" ]

\* speed_test.py:251-269 and database.py:572-589: the row of table
\* speed_tests written for a result, the columns kept being timestamp,
\* test_type, ping_ms, download_mbps, status and error_message; a write the
\* store refuses is logged (line 269) and leaves the table as it was.
store_speed_test_result(result, store_ok, speed_tests) ==
    IF store_ok
    THEN Append(speed_tests, [ timestamp |-> result.timestamp,
                               test_type |-> result.test_type,
                               ping_ms |-> result.ping_ms,
                               download_mbps |-> result.download_mbps,
                               status |-> result.status,
                               error_message |-> result.error_message ])
    ELSE speed_tests

\* speed_test.py:33-47: the result of the first method that hands one back:
\* speedtest-cli, the HTTP test, the basic network test.
FirstMethod(cli, http, basic) ==
    IF cli.status # "none" THEN [ result |-> cli, method |-> "speedtest-cli" ]
    ELSE IF http.status # "none" THEN [ result |-> http, method |-> "http_test" ]
    ELSE [ result |-> basic, method |-> "basic_test" ]

\* A runner whose body lets the exception through: no result for the caller
\* and nothing written.
run_server_speed_test_uncaught(test_id, test_type, tm, cli, http, basic, escapes, store_ok, speed_tests) ==
    LET first  == FirstMethod(cli, http, basic)
        result == [ test_id |-> test_id, test_type |-> test_type, timestamp |-> tm,
                    status |-> first.result.status, ping_ms |-> first.result.ping_ms,
                    download_mbps |-> first.result.download_mbps,
                    error_message |-> "none", method |-> first.method ]
    IN  IF escapes
        THEN [ raised |-> TRUE, result |-> [ result EXCEPT !.status = "none" ],
               entry |-> "running", speed_tests |-> speed_tests ]
        ELSE [ raised |-> FALSE, result |-> result, entry |-> "completed",
               speed_tests |-> store_speed_test_result(result, store_ok, speed_tests) ]

\* speed_test.py:31-84: the body of run_server_speed_test after the entry
\* of running_tests was made: what the caller gets (raised: an exception
\* reached the caller), the status written to the entry of the test
\* (lines 61, 81) and table speed_tests afterwards.  tm is the read of the
\* clock of line 53 (71); escapes: an exception leaves the body of the try
\* before the store is called (none of the three methods lets one through:
\* it is an error such as MemoryError).
run_server_speed_test(test_id, test_type, tm, cli, http, basic, escapes, store_ok, speed_tests) ==
    LET first  == FirstMethod(cli, http, basic)
        result == [ test_id |-> test_id, test_type |-> test_type, timestamp |-> tm,
                    status |-> first.result.status, ping_ms |-> first.result.ping_ms,
                    download_mbps |-> first.result.download_mbps,
                    error_message |-> "none", method |-> first.method ]
        error_result == [ test_id |-> test_id, test_type |-> test_type, timestamp |-> tm,
                          status |-> "failed", ping_ms |-> 0, download_mbps |-> 0,
                          error_message |-> "str(e)", method |-> "failed" ]
    IN  IF escapes
        THEN [ raised |-> FALSE, result |-> error_result, entry |-> "failed",
               speed_tests |-> store_speed_test_result(error_result, store_ok, speed_tests) ]
        ELSE [ raised |-> FALSE, result |-> result, entry |-> "completed",
               speed_tests |-> store_speed_test_result(result, store_ok, speed_tests) ]

\* speed_test.py:275-280: cancel_test: the entry of a known test is marked
\* cancelled, whatever its status.
cancel_test(running_tests, test_id) ==
    IF running_tests[test_id].status # "absent"
    THEN [ ok |-> TRUE, running_tests |-> [ running_tests EXCEPT ![test_id].status = "cancelled" ] ]
    ELSE [ ok |-> FALSE, running_tests |-> running_tests ]

\* speed_test.py:271-273: get_test_status: the entry of the test, None
\* (status "absent") for a test the engine does not know.
get_test_status(running_tests, test_id) == running_tests[test_id]

\* data_collector.py:260-266: the except clause of collect_data_point.
ExceptHandler(lcs, ost, tm) ==
    IF lcs THEN [ lcs |-> FALSE, ost |-> tm ] ELSE [ lcs |-> lcs, ost |-> ost ]

\* data_collector.py:184-224: which branch of the outage detection runs.
Branch(ok, lcs, ost) ==
    IF ~ok /\ lcs THEN "down"
    ELSE IF ok /\ ~lcs /\ ost # None THEN "restored"
    ELSE "steady"

\* data_collector.py:143-266: collect_data_point, as the values it leaves.
\* result is what get_status did, tm the clock, store_ok whether the store
\* accepts the insert of the sample.
collect_data_point(result, tm, store_ok) ==
    LET lcs == last_connection_state
        ost == outage_start_time
    IN
    IF result = FetchRaises
    THEN LET h == ExceptHandler(lcs, ost, tm)
         IN  [ lcs |-> h.lcs, ost |-> h.ost, latency_ms |-> None,
               severity |-> "none", raised |-> "fetch", metrics |-> metrics ]
    ELSE
    LET lat == LatencyOf(result)
        ok  == ConnectionOk(lat)
        br  == Branch(ok, lcs, ost)
    IN
    IF br = "restored"
    THEN \* Line 213 looks up self.db.record_enhanced_outage, which class
         \* StarlinkDatabase (database.py:8-708) does not define: the
         \* AttributeError is caught at line 260 and lines 222-256 are skipped.
         LET h == ExceptHandler(lcs, ost, tm)
         IN  [ lcs |-> h.lcs, ost |-> h.ost, latency_ms |-> lat,
               severity |-> Severity(tm - ost), raised |-> "AttributeError",
               metrics |-> metrics ]
    ELSE
    LET ost1 == IF br = "down" THEN tm ELSE ost     \* line 186
        lcs1 == ok                                  \* line 224
    IN
    IF store_ok
    THEN [ lcs |-> lcs1, ost |-> ost1, latency_ms |-> lat,
           severity |-> "none", raised |-> "none",
           metrics |-> insert_metric(metrics, tm) ]
    ELSE LET h == ExceptHandler(lcs1, ost1, tm)
         IN  [ lcs |-> h.lcs, ost |-> h.ost, latency_ms |-> lat,
               severity |-> "none", raised |-> "store", metrics |-> metrics ]

\* LoopExcept with the test of the counter as ">= 5".
LoopExcept_from_five(failed, cf, lcs, ost, tm) ==
    IF ~failed THEN [ cf |-> 0, lcs |-> lcs, ost |-> ost ]
    ELSE IF cf + 1 >= 5 /\ ost = None
    THEN [ cf |-> cf + 1, lcs |-> FALSE, ost |-> tm ]
    ELSE [ cf |-> cf + 1, lcs |-> lcs, ost |-> ost ]

\* LoopExcept with the start of the outage set and the flag left alone.
LoopExcept_start_only(failed, cf, lcs, ost, tm) ==
    IF ~failed THEN [ cf |-> 0, lcs |-> lcs, ost |-> ost ]
    ELSE IF cf + 1 > 5 /\ ost = None
    THEN [ cf |-> cf + 1, lcs |-> lcs, ost |-> tm ]
    ELSE [ cf |-> cf + 1, lcs |-> lcs, ost |-> ost ]

\* LoopExcept without the test of outage_start_time.
LoopExcept_any_outage(failed, cf, lcs, ost, tm) ==
    IF ~failed THEN [ cf |-> 0, lcs |-> lcs, ost |-> ost ]
    ELSE IF cf + 1 > 5
    THEN [ cf |-> cf + 1, lcs |-> FALSE, ost |-> tm ]
    ELSE [ cf |-> cf + 1, lcs |-> lcs, ost |-> ost ]

\* data_collector.py:298-308: the end of an iteration of the loop: the
\* except clause when the body raised (failed), the else clause when it
\* did not.  cf is consecutive_failures; lcs and ost are the detector as
\* collect_data_point left it; tm is the read of the clock of line 304.
LoopExcept(failed, cf, lcs, ost, tm) ==
    IF ~failed THEN [ cf |-> 0, lcs |-> lcs, ost |-> ost ]
    ELSE IF cf + 1 > 5 /\ ost = None
    THEN [ cf |-> cf + 1, lcs |-> FALSE, ost |-> tm ]
    ELSE [ cf |-> cf + 1, lcs |-> lcs, ost |-> ost ]

\* CounterStep with the test as ">": the counter reaches its interval.
CounterStep_late(counter, interval) ==
    IF counter + 1 > interval THEN 0 ELSE counter + 1

\* data_collector.py:277-292: a periodic counter after one more tick.
CounterStep(counter, interval) ==
    IF counter + 1 >= interval THEN 0 ELSE counter + 1

\* data_collector.py:279 and 290: whether the periodic task of a counter is
\* run in the tick that steps it.
CounterFires(counter, interval) == counter + 1 >= interval

\* data_collector.py:295: datetime.now().minute == 0, of a wall clock in
\* seconds.
RollupDue(clock) == (clock \div 60) % 60 = 0

\* TickExit with no except clause around the rollup: its exception ends
\* the thread.
TickExit_uncaught(rollup) == IF rollup = "raises" THEN "done" ELSE "wait"

\* data_collector.py:298-314: where the thread is after the iteration.  The
\* except clause catches what the body raised, so the thread goes on to
\* the sleep and the next test of running whatever the rollup did.
TickExit(rollup) == "wait"

\* StopRecord with the end of the outage not passed on.
StopRecord_no_end(table, start_time, end_time) ==
    record_outage(table, start_time, None, "System shutdown")

\* data_collector.py:340: what stop() writes for an open outage.
StopRecord(table, start_time, end_time) ==
    record_outage(table, start_time, end_time, "System shutdown")

\* Observer of the end-to-end scenario: three consecutive ticks, the first
\* with the link UP, no outage open and a latency of 30 ms, the second with
\* a fetch that raises, the third with a latency of 25 ms, the store
\* accepting every write.  The value is the timestamps of the ticks of the
\* scenario seen so far.
ScenarioStep(result, tm, store_ok) ==
    LET first == IF result = 30 /\ store_ok /\ last_connection_state
                    /\ outage_start_time = None
                 THEN << tm >> ELSE << >>
    IN
    IF Len(scenario) = 1 /\ result = FetchRaises THEN Append(scenario, tm)
    ELSE IF Len(scenario) = 2 /\ result = 25 /\ store_ok THEN Append(scenario, tm)
    ELSE first

\* ------------------------------------------------------------------- state

\* data_collector.py:16-50: DataCollector.__init__, on an empty store.
Constructed ==
    /\ now = 0
    /\ running = FALSE
    /\ thread = 0
    /\ caller_pc = "idle"
    /\ last_connection_state = TRUE
    /\ outage_start_time = None
    /\ consecutive_failures = 0
    /\ weather_collection_counter = 0
    /\ performance_analysis_counter = 0
    /\ latency_ms = None
    /\ severity = "none"
    /\ raised = "none"
    /\ metrics = << >>
    /\ outages = << >>
    /\ scenario = << >>

Init ==
    /\ Constructed
    /\ pc = [ t \in Threads |-> IF t <= MaxThreads THEN "unborn" ELSE "absent" ]
    /\ args = NoCall
    /\ returned = Pending

\* start() without the test of running: every call starts a thread.
Start_unguarded ==
    /\ caller_pc = "idle"
    /\ \E t \in Threads :
         /\ pc[t] \in { "unborn", "done" }
         /\ \A u \in Threads : u < t => pc[u] \notin { "unborn", "done" }
         /\ running' = TRUE
         /\ thread' = t
         /\ pc' = [ pc EXCEPT ![t] = "wait" ]
    /\ NoFrame
    /\ UNCHANGED << now, caller_pc, detector, counters, metrics, outages,
                    scenario, aside >>

\* data_collector.py:318-327: start().
Start ==
    /\ caller_pc = "idle"
    /\ IF running
       THEN NoFrame /\ UNCHANGED << now, threads, caller_pc, detector,
                                    counters, metrics, outages, scenario >>
       ELSE \E t \in Threads :
              /\ pc[t] \in { "unborn", "done" }
              /\ \A u \in Threads : u < t => pc[u] \notin { "unborn", "done" }
              /\ running' = TRUE
              /\ thread' = t
              /\ pc' = [ pc EXCEPT ![t] = "wait" ]
              /\ NoFrame
              /\ UNCHANGED << now, caller_pc, detector, counters, metrics,
                              outages, scenario >>
    /\ UNCHANGED aside

\* The loop as "while True": the flag is never looked at.
LoopGoesOn_always(is_running) == TRUE

\* data_collector.py:272: while self.running.
LoopGoesOn(is_running) == is_running

\* data_collector.py:272 and 310-314: a thread between two iterations ends
\* its sleep and tests running; one that passes the test is inside
\* collect_data_point, waiting for get_status.
LoopTest(t) ==
    /\ pc[t] = "wait"
    /\ pc' = [ pc EXCEPT ![t] = IF LoopGoesOn(running) THEN "tick" ELSE "done" ]
    /\ NoFrame
    /\ UNCHANGED << now, running, thread, caller_pc, detector, counters,
                    metrics, outages, scenario >>
    /\ UNCHANGED aside

\* data_collector.py:273-308: one iteration of the loop body, from the
\* return of get_status to the start of the sleep.
LoopIteration(t, result, tm, store_ok, rollup) ==
    /\ pc[t] = "tick"
    /\ tm \in ClockReads(now)
    /\ LET c == collect_data_point(result, tm, store_ok)
           failed == rollup = "raises"                      \* line 298
           cf == IF failed THEN consecutive_failures + 1 ELSE 0
           forced == failed /\ cf > 5 /\ c.ost = None       \* line 303
       IN
       /\ now' = tm
       /\ latency_ms' = c.latency_ms
       /\ severity' = c.severity
       /\ raised' = c.raised
       /\ metrics' = c.metrics
       /\ weather_collection_counter' =
            CounterStep(weather_collection_counter, weather_collection_interval)
       /\ performance_analysis_counter' =
            CounterStep(performance_analysis_counter, performance_analysis_interval)
       /\ consecutive_failures' = cf
       /\ outage_start_time' = IF forced THEN tm ELSE c.ost
       /\ last_connection_state' = IF forced THEN FALSE ELSE c.lcs
       /\ scenario' = ScenarioStep(result, tm, store_ok)
    /\ pc' = [ pc EXCEPT ![t] = TickExit(rollup) ]
    /\ UNCHANGED << running, thread, caller_pc, outages >>
    /\ UNCHANGED aside

\* data_collector.py:329: stop() is called.
StopEnter ==
    /\ caller_pc = "idle"
    /\ caller_pc' = "stop"
    /\ NoFrame
    /\ UNCHANGED << now, threads, detector, counters, metrics, outages,
                    scenario >>
    /\ UNCHANGED aside

\* data_collector.py:331-334: return when not running, else clear the flag
\* and go on to join the loop thread.
StopGuard ==
    /\ caller_pc = "stop"
    /\ IF ~running
       THEN caller_pc' = "idle" /\ UNCHANGED running
       ELSE caller_pc' = "join" /\ running' = FALSE
    /\ NoFrame
    /\ UNCHANGED << now, thread, pc, detector, counters, metrics, outages,
                    scenario >>
    /\ UNCHANGED aside

\* data_collector.py:335-342: join returns, because the loop thread ended or
\* because the 10 s ran out while it was inside a tick; then the open outage
\* is recorded.  An error of the store is not caught: stop() raises it.
StopFinalize(tm, store_ok) ==
    /\ caller_pc = "join"
    /\ thread # 0 => pc[thread] \in { "done", "tick" }
    /\ IF outage_start_time # None
       THEN /\ tm \in ClockReads(now)
            /\ now' = tm
            /\ outages' = IF store_ok
                          THEN StopRecord(outages, outage_start_time, tm)
                          ELSE outages
            /\ raised' = IF store_ok THEN "none" ELSE "store"
       ELSE UNCHANGED << outages, now >> /\ raised' = "none"
    /\ latency_ms' = None
    /\ severity' = "none"
    /\ caller_pc' = "idle"
    /\ UNCHANGED << threads, detector, counters, metrics, scenario >>
    /\ UNCHANGED aside

Next ==
    \/ Start
    \/ \E t \in Threads : LoopTest(t)
    \/ \E t \in Threads, result \in FetchResults, tm \in Instants,
          store_ok \in BOOLEAN, rollup \in RollupOutcomes :
            LoopIteration(t, result, tm, store_ok, rollup)
    \/ StopEnter
    \/ StopGuard
    \/ \E tm \in Instants, store_ok \in BOOLEAN : StopFinalize(tm, store_ok)

Spec == Init /\ [][Next]_vars

\* No step of the collector: a computation studied on its own touches
\* nothing of it.
CollectorIdle ==
    UNCHANGED << now, threads, caller_pc, detector, counters, locals,
                 metrics, outages, scenario >>

\* The collector as constructed, with a call of one of Calls to study.
Studying(Calls) ==
    /\ Constructed
    /\ pc = [ t \in Threads |-> IF t <= MaxThreads THEN "unborn" ELSE "absent" ]
    /\ args \in Calls
    /\ returned = Pending

\* The arguments calculate_quality_score is studied on: around every
\* threshold of every bucket.
ScoreCalls ==
    [ call : { "calculate_quality_score" },
      latency : { 20, 50, 51, 75, 76, 100, 101, 150 },
      download_mbps : { 0, 5, 9, 10, 24, 25, 49, 50, 100 },
      upload_mbps : { 1, 2, 3, 7, 8, 14, 15, 20 },
      obstruction : { 0, 1, 2, 10, 11, 50, 51, 100, 101, 150 },
      snr_good : BOOLEAN ]

ScoreInit == Studying(ScoreCalls)

\* The call of calculate_quality_score returns.
ScoreReturns ==
    /\ args.call = "calculate_quality_score"
    /\ ~returned.done
    /\ returned' =
         [ done |-> TRUE,
           value |-> calculate_quality_score(args.latency, args.download_mbps,
                         args.upload_mbps, args.obstruction, args.snr_good) ]
    /\ UNCHANGED args
    /\ CollectorIdle

ScoreSpec == ScoreInit /\ [][ScoreReturns]_vars

\* The throughput lists get_speed_data is studied on, in bit/s: empty, or
\* a sample, then no, 59 or 60 seconds of silence, then perhaps a last
\* sample; the first sample is inside the last 60 or just outside.
Zeros(n) == [ i \in 1..n |-> 0 ]
Series ==
    { << >> } \cup
    { << v >> \o Zeros(n) \o tail :
        v \in { 0, 500000, 2000000 }, n \in { 0, RecentWindow - 1, RecentWindow },
        tail \in { << >>, << 500000 >>, << 4000000 >> } }
Histories ==
    [ kind : { "raises", "short" }, downlink : { << >> }, uplink : { << >> } ]
    \cup [ kind : { "data" }, downlink : Series, uplink : Series ]
Statuses ==
    [ kind : { "raises" }, has_downlink : { FALSE }, downlink : { 0 },
      has_uplink : { FALSE }, uplink : { 0 } ]
    \cup [ kind : { "snapshot" }, has_downlink : BOOLEAN, downlink : { 0, 3000000 },
           has_uplink : { TRUE }, uplink : { 700000 } ]
SpeedCalls ==
    [ call : { "get_speed_data", "app_get_speed_data" },
      history : Histories, status : Statuses ]

SpeedInit == Studying(SpeedCalls)

\* The call of DataCollector.get_speed_data returns.
CollectorSpeedReturns ==
    /\ args.call = "get_speed_data"
    /\ ~returned.done
    /\ returned' = [ done |-> TRUE,
                     value |-> get_speed_data(args.history, args.status) ]
    /\ UNCHANGED args
    /\ CollectorIdle

\* The call of the application's get_speed_data returns.
AppSpeedReturns ==
    /\ args.call = "app_get_speed_data"
    /\ ~returned.done
    /\ returned' = [ done |-> TRUE,
                     value |-> app_get_speed_data(args.history, args.status) ]
    /\ UNCHANGED args
    /\ CollectorIdle

SpeedSpec == SpeedInit /\ [][CollectorSpeedReturns \/ AppSpeedReturns]_vars

\* The samples the storing of a data point is studied on: the quality score
\* is the one collect_data_point computes from them, around 50, with the
\* speeds around 50 and 20 Mbps; the database holds no event or one.
EarlierEvent ==
    [ event_type |-> "high_speed",
      details |-> [ download_mbps |-> 60, upload_mbps |-> 5 ] ]
StoreCalls ==
    { [ call |-> "store_data_point",
        db |-> [ metrics |-> << >>, events |-> ev ],
        sample |-> [ quality_score |-> calculate_quality_score(l, d, u, o, TRUE),
                     latency_ms |-> l, download_mbps |-> d,
                     upload_mbps |-> u, obstruction_pct |-> o ],
        timestamp |-> Clock[1],
        fails_at |-> f ] :
        ev \in { << >>, << EarlierEvent >> },
        l \in { 30, 101 }, d \in { 24, 50, 51 }, u \in { 2, 14, 20, 21 },
        o \in { 0, 2, 101 }, f \in 0..3 }

StoreInit == Studying(StoreCalls)

\* The try block of collect_data_point runs from line 226 to its end, or
\* to the database write that raises.
StoreReturns ==
    /\ args.call = "store_data_point"
    /\ ~returned.done
    /\ returned' = [ done |-> TRUE,
                     value |-> StoreDataPoint(args.db, args.sample,
                                              args.timestamp, args.fails_at) ]
    /\ UNCHANGED args
    /\ CollectorIdle

StoreSpec == StoreInit /\ [][StoreReturns]_vars

\* A long run of the loop thread, for the periodic tasks of lines 277-292.
\* args counts the ticks and keeps what collect_data_point did in the last
\* one; returned tells which tasks the last tick ran.
MaxTicks == 120
CounterCalls == { [ call |-> "_collection_loop", ticks |-> 0, collection |-> "none" ] }

CounterInit == Studying(CounterCalls)

\* data_collector.py:275-292: the call of collect_data_point returns (it
\* catches every exception, line 260, whether it stored a sample or not)
\* and the two counters are stepped, each running its task when it is
\* reset.  The tasks catch their own exceptions (lines 281-286, 346).
CounterTick(collection) ==
    /\ args.call = "_collection_loop"
    /\ args.ticks < MaxTicks
    /\ weather_collection_counter' =
         CounterStep(weather_collection_counter, weather_collection_interval)
    /\ performance_analysis_counter' =
         CounterStep(performance_analysis_counter, performance_analysis_interval)
    /\ args' = [ args EXCEPT !.ticks = @ + 1, !.collection = collection ]
    /\ returned' =
         [ done |-> TRUE,
           weather |-> CounterFires(weather_collection_counter,
                                    weather_collection_interval),
           analysis |-> CounterFires(performance_analysis_counter,
                                     performance_analysis_interval) ]
    /\ UNCHANGED << now, threads, caller_pc, detector, consecutive_failures,
                    locals, metrics, outages, scenario >>

CounterSpec ==
    CounterInit /\ [][\E collection \in { "stored", "raised" } : CounterTick(collection)]_vars

\* The loop thread against the wall clock, for the hourly rollup of lines
\* 294-296.  args.clock is the wall clock (s) at the test of line 295 in
\* the coming tick, counted from the top of an hour in which the collector
\* is started after minute 0; args.triggers counts the calls of
\* _calculate_daily_stats in the next clock hour, [3600, 7200), and
\* args.completed is that count once the hour is over.  The intervals are
\* the default (line 16), the application's (app.py:24) and five minutes.
Intervals == { 30, 60, 300 }
Starts == { 3000, 3100 }
HourCalls ==
    [ call : { "rollup_schedule" }, interval : Intervals, clock : Starts,
      triggers : { 0 }, completed : { None } ]

HourInit == Studying(HourCalls)

\* data_collector.py:294-314: the test of the minute, the rollup when it is
\* 0, and the sleep of collection_interval seconds; work is the time (s)
\* the body of the next iteration takes up to its own test.
HourTick(work) ==
    /\ args.call = "rollup_schedule"
    /\ args.completed = None
    /\ LET due   == RollupDue(args.clock)
           count == IF due /\ args.clock >= 3600 THEN args.triggers + 1
                    ELSE args.triggers
           next  == args.clock + args.interval + work
       IN  /\ args' = [ args EXCEPT !.clock = next, !.triggers = count,
                                    !.completed = IF next >= 7200 THEN count ELSE None ]
           /\ returned' = [ done |-> TRUE, rollup |-> due ]
    /\ CollectorIdle

HourSpec == HourInit /\ [][\E work \in { 0, 1 } : HourTick(work)]_vars

\* The rollup run several times over a table of samples nobody touches.
\* args holds the table, the wall clock of the last run (hours), the table
\* daily_stats and the number of runs; returned keeps daily_stats as it was
\* before the last run; args.outages is the table of the outages, which
\* the rollup does not read.  The samples are two of the morning of day 0, one of
\* day 6 and one of day 7; the runs are in the morning of day 7.
MaxRuns == 3
SampleTables ==
    LET s1 == [ timestamp |-> 10, latency_ms |-> 20 ]
        s2 == [ timestamp |-> 12, latency_ms |-> 40 ]
        s3 == [ timestamp |-> 6 * 24 + 5, latency_ms |-> 30 ]
        s4 == [ timestamp |-> 7 * 24 + 8, latency_ms |-> 25 ]
    IN  { << >>, << s1 >>, << s2 >>, << s1, s2 >>, << s2, s3 >>, << s3 >>, << s3, s4 >>,
          << s1, s2, s3 >>, << s1, s2, s3, s4 >> }
OutageTables ==
    LET o1 == [ start_time |-> 6 * 24 + 3, end_time |-> 6 * 24 + 3,
                duration_seconds |-> 120, reason |-> "Connection lost" ]
        o2 == [ start_time |-> 6 * 24 + 7, end_time |-> 6 * 24 + 7,
                duration_seconds |-> 90, reason |-> "Connection lost" ]
    IN  { << >>, << o1 >>, << o1, o2 >> }
RollupInstants == { 7 * 24 + h : h \in { 9, 11, 13, 14, 15 } }
RollupCalls ==
    [ call : { "_calculate_daily_stats" }, metrics : SampleTables,
      outages : OutageTables, clock : { 7 * 24 + 8 }, daily_stats : { << >> }, runs : { 0 } ]

RollupInit == Studying(RollupCalls)

\* database.py:222-259: one run of _calculate_daily_stats, at a later read
\* of the clock.
RollupRuns(tm) ==
    /\ args.call = "_calculate_daily_stats"
    /\ args.runs < MaxRuns
    /\ tm > args.clock
    /\ args' = [ args EXCEPT !.clock = tm, !.runs = @ + 1,
                   !.daily_stats = calculate_daily_stats(args.metrics, @, tm) ]
    /\ returned' = [ done |-> TRUE, before |-> args.daily_stats ]
    /\ CollectorIdle

RollupSpec == RollupInit /\ [][\E tm \in RollupInstants : RollupRuns(tm)]_vars

\* The requests the trend route is studied on: the five metrics, no metric,
\* other columns of the table, a name in another case, an empty name and a
\* name that carries SQL.
TrendCalls ==
    [ call : { "historical_trends" },
      query : [ metric : valid_metrics \cup
                         { "absent", "timestamp", "id", "Download_Mbps", "",
                           "latency_ms) FROM metrics; --" },
                period : { "hour", "day", "minute", "week" },
                days_is_int : BOOLEAN ],
      store_ok : BOOLEAN ]

TrendInit == Studying(TrendCalls)

\* The request is answered.
TrendReturns ==
    /\ args.call = "historical_trends"
    /\ ~returned.done
    /\ returned' = [ done |-> TRUE,
                     value |-> historical_trends(args.query, args.store_ok) ]
    /\ UNCHANGED args
    /\ CollectorIdle

TrendSpec == TrendInit /\ [][TrendReturns]_vars

\* The stores the read queries are studied on, at the start of day 45 with
\* a window of 30 days.  Each of four hours of the day has one of six
\* histories: no sample; six samples of poor quality; seven of very poor
\* quality; six poor and six perfect ones; three very poor and three fair
\* ones; six poor ones from before the window.  The qualities depend on the
\* hour, so that no two hours have the same average.  One more sample may
\* show an obstruction of 1 % or of 3 %, and the store holds no outage, 5
\* or 6 of the window, or 6 from before it.
ReadNow == 45 * 24
ReadDays == 30
StudiedHours == << 8, 12, 18, 21 >>
HourHistories == { "none", "poor", "very_poor", "mixed", "few", "old" }
Repeat(n, row) == [ i \in 1..n |-> row ]
Sample(day, hour, quality, obstruction) ==
    [ timestamp |-> day * 24 + hour, quality_score |-> quality,
      obstruction_pct |-> obstruction ]
HistoryRows(k, history) ==
    LET h == StudiedHours[k]
    IN  CASE history = "none"      -> << >>
          [] history = "poor"      -> Repeat(6, Sample(40, h, 50 - k, 0))
          [] history = "very_poor" -> Repeat(7, Sample(40, h, 20 + k, 0))
          [] history = "mixed"     -> Repeat(6, Sample(40, h, 30 + k, 0))
                                      \o Repeat(6, Sample(41, h, 100, 0))
          [] history = "few"       -> Repeat(3, Sample(40, h, 10, 0))
                                      \o Repeat(3, Sample(41, h, 70, 0))
          [] history = "old"       -> Repeat(6, Sample(2, h, 50 - k, 0))
ObstructionRows(o) ==
    IF o = 0 THEN << >> ELSE << Sample(42, 3, 90, o) >>
OutageRows(n, day) ==
    Repeat(n, [ start_time |-> day * 24 + 4, end_time |-> day * 24 + 4,
                duration_seconds |-> 600, reason |-> "System shutdown" ])
ReadStores ==
    { [ metrics |-> HistoryRows(1, p[1]) \o HistoryRows(2, p[2])
                    \o HistoryRows(3, p[3]) \o HistoryRows(4, p[4])
                    \o ObstructionRows(o),
        outages |-> OutageRows(n[1], n[2]) ] :
        p \in [ 1..4 -> HourHistories ], o \in { 0, 1, 3 },
        n \in { << 0, 40 >>, << 5, 40 >>, << 6, 40 >>, << 6, 2 >> } }
SummaryStores ==
    { s \in ReadStores : Len(s.metrics) <= 7 }
ReadCalls ==
    [ call : { "get_performance_insights" }, store : ReadStores ]
    \cup [ call : { "historical_summary" }, store : SummaryStores ]

ReadInit == Studying(ReadCalls)

\* The route /api/historical/insights is answered.
InsightsReturns ==
    /\ args.call = "get_performance_insights"
    /\ ~returned.done
    /\ returned' = [ done |-> TRUE,
                     value |-> insights_route(args.store.metrics, args.store.outages,
                                              ReadNow, ReadDays) ]
    /\ UNCHANGED args
    /\ CollectorIdle

\* The route /api/historical/summary is answered.
SummaryReturns ==
    /\ args.call = "historical_summary"
    /\ ~returned.done
    /\ returned' = [ done |-> TRUE,
                     value |-> historical_summary(args.store.metrics, args.store.outages,
                                                  ReadNow - ReadDays * 24) ]
    /\ UNCHANGED args
    /\ CollectorIdle

ReadSpec == ReadInit /\ [][InsightsReturns \/ SummaryReturns]_vars

\* The arguments calculate_performance_grade is studied on: the examples of
\* its specification and the values around every bound, with a poor and a
\* high upload speed.
GradeCalls ==
    [ call : { "calculate_performance_grade" },
      latency : { 20, 29, 30, 40, 49, 50, 74, 75, 99, 100, 200 },
      download : { 2, 10, 11, 15, 16, 25, 26, 30, 50, 51, 60 },
      upload : { 0, 100 },
      quality_score : { 30, 59, 60, 69, 70, 79, 80, 85, 89, 90, 95 } ]

GradeInit == Studying(GradeCalls)

\* The call of calculate_performance_grade returns.
GradeReturns ==
    /\ args.call = "calculate_performance_grade"
    /\ ~returned.done
    /\ returned' =
         [ done |-> TRUE,
           value |-> calculate_performance_grade(args.latency, args.download,
                         args.upload, args.quality_score) ]
    /\ UNCHANGED args
    /\ CollectorIdle

GradeSpec == GradeInit /\ [][GradeReturns]_vars

\* The tables daily_stats the reports are studied on: rows for any of eight
\* dates around the end of a week (day 28 is a Monday) and of a month (day
\* 31 is the first of February).  A row holds the average latency of its
\* date, its number of samples and the outage columns, which the rollup
\* leaves at 0.
ReportDates == { 26, 27, 28, 29, 30, 31, 32, 35 }
ReportRow(date) ==
    [ avg_latency_ms |-> 20 + ((7 * date) % 11), data_points |-> 1 + (date % 3),
      total_outage_minutes |-> 0, outage_count |-> 0 ]
ReportCalls ==
    [ call : { "get_reports" }, report_type : { "weekly", "monthly" },
      daily_stats : { [ d \in dates |-> ReportRow(d) ] : dates \in SUBSET ReportDates } ]

ReportInit == Studying(ReportCalls)

\* The route /api/historical/reports is answered.
ReportReturns ==
    /\ args.call = "get_reports"
    /\ ~returned.done
    /\ returned' = [ done |-> TRUE,
                     value |-> get_reports(args.report_type, args.daily_stats) ]
    /\ UNCHANGED args
    /\ CollectorIdle

ReportSpec == ReportInit /\ [][ReportReturns]_vars

\* The speed test engine with the threads that run its tests (app.py:476-483,
\* speed_test.py:323-328), each running one test.  args holds the wall clock
\* (s), self.running_tests (status "absent": no entry), table speed_tests
\* and the position of each thread; returned is what the last call of the
\* engine handed back, with whether the store took its write and the length
\* of speed_tests before it.
Runners == { 1, 2 }
ClockSeconds == { 100, 101 }
TestIds == ClockSeconds
\* Thread 1 is the one of the route (app.py:470: test_type 'manual' unless
\* the request names another), thread 2 the one of the scheduler
\* (speed_test.py:326).
TestTypeOf == [ r \in Runners |-> IF r = 1 THEN "manual" ELSE "scheduled" ]
NoTestResult ==
    [ test_id |-> None, test_type |-> "none", timestamp |-> None, status |-> "none",
      ping_ms |-> 0, download_mbps |-> 0, error_message |-> "none", method |-> "none" ]
NoEntry == [ status |-> "absent", result |-> NoTestResult ]
CliOutcomes == { NoResult, MethodResult("completed", 30, 120) }
\* speed_test.py:149: failed when no download succeeded.
HttpOutcomes == { NoResult, MethodResult("completed", 35, 80), MethodResult("failed", 35, 0) }
\* speed_test.py:164-172: failed when the ping failed.
BasicOutcomes == { MethodResult("completed", 40, 60), MethodResult("failed", 0, 0) }

EngineCalls ==
    [ call : { "speed_test_engine" }, clock : { 100 },
      running_tests : { [ id \in TestIds |-> NoEntry ] },
      speed_tests : { << >> },
      runner : { [ r \in Runners |-> [ pc |-> "idle", test_id |-> None, test_type |-> "none" ] ] } ]

EngineInit == Studying(EngineCalls)

EngineReturned(op, test_id, threw, result, store_ok) ==
    [ done |-> TRUE, op |-> op, test_id |-> test_id, raised |-> threw, result |-> result,
      store_ok |-> store_ok, stored_before |-> Len(args.speed_tests), entry_before |-> args.running_tests[test_id].status ]

\* time.time() moves on to the next second.
EngineTick ==
    /\ args.call = "speed_test_engine"
    /\ args.clock + 1 \in ClockSeconds
    /\ args' = [ args EXCEPT !.clock = @ + 1 ]
    /\ UNCHANGED returned
    /\ CollectorIdle

\* speed_test.py:24-29: a thread enters run_server_speed_test: the test id
\* is the second of the clock and the entry of that id is made anew.
StartTest(r) ==
    /\ args.call = "speed_test_engine"
    /\ args.runner[r].pc = "idle"
    /\ LET test_id == args.clock
       IN  /\ args' = [ args EXCEPT
                          !.running_tests[test_id] = [ status |-> "running", result |-> NoTestResult ],
                          !.runner[r] = [ pc |-> "running", test_id |-> test_id, test_type |-> TestTypeOf[r] ] ]
           /\ returned' = EngineReturned("start", test_id, FALSE, NoTestResult, TRUE)
    /\ CollectorIdle

\* speed_test.py:31-84: the test of a thread ends and the call returns.
FinishTest(r, cli, http, basic, escapes, store_ok) ==
    /\ args.call = "speed_test_engine"
    /\ args.runner[r].pc = "running"
    /\ LET test_id == args.runner[r].test_id
           out == run_server_speed_test(test_id, args.runner[r].test_type, args.clock,
                                        cli, http, basic, escapes, store_ok, args.speed_tests)
       IN  /\ args' = [ args EXCEPT
                          !.running_tests[test_id] =
                              IF out.raised THEN @
                              ELSE [ status |-> out.entry, result |-> out.result ],
                          !.speed_tests = out.speed_tests,
                          !.runner[r].pc = "returned" ]
           /\ returned' = EngineReturned("run_server_speed_test", test_id, out.raised, out.result, store_ok)
    /\ CollectorIdle

\* speed_test.py:275-280: a call of cancel_test.
CancelTest(test_id) ==
    /\ args.call = "speed_test_engine"
    /\ LET out == cancel_test(args.running_tests, test_id)
       IN  /\ args' = [ args EXCEPT !.running_tests = out.running_tests ]
           /\ returned' = [ EngineReturned("cancel_test", test_id, FALSE, NoTestResult, TRUE)
                              EXCEPT !.result.status = IF out.ok THEN "True" ELSE "False" ]
    /\ CollectorIdle

\* speed_test.py:271-273: a call of get_test_status.
TestStatus(test_id) ==
    /\ args.call = "speed_test_engine"
    /\ returned' = EngineReturned("get_test_status", test_id, FALSE,
                                  get_test_status(args.running_tests, test_id).result, TRUE)
    /\ UNCHANGED args
    /\ CollectorIdle

EngineNext ==
    \/ EngineTick
    \/ \E r \in Runners : StartTest(r)
    \/ \E r \in Runners, cli \in CliOutcomes, http \in HttpOutcomes, basic \in BasicOutcomes,
          escapes \in BOOLEAN, store_ok \in BOOLEAN :
            FinishTest(r, cli, http, basic, escapes, store_ok)
    \/ \E test_id \in TestIds : CancelTest(test_id)
    \/ \E test_id \in TestIds : TestStatus(test_id)

EngineSpec == EngineInit /\ [][EngineNext]_vars

\* weather_service.py:24
cache_duration == 600
\* timedelta.seconds of a non-negative difference of d seconds: the seconds
\* of the difference without its whole days.
TimedeltaSeconds(d) == d % 86400

\* weather_service.py:26-78: get_current_weather at instant tm (s).
\* last_fetch is None before the first fetch and cached_data None with it;
\* the weather fetched at an instant is named by that instant.  configured:
\* an API key and a location are set (lines 33-39); api_ok: the request and
\* the reading of its answer succeed.
get_current_weather(last_fetch, cached_data, tm, configured, api_ok) ==
    IF cached_data # None /\ last_fetch # None
          /\ TimedeltaSeconds(tm - last_fetch) < cache_duration
    THEN [ value |-> cached_data, cached |-> TRUE, requested |-> FALSE,
           last_fetch |-> last_fetch, cached_data |-> cached_data ]
    ELSE IF ~configured
    THEN [ value |-> None, cached |-> FALSE, requested |-> FALSE,
           last_fetch |-> last_fetch, cached_data |-> cached_data ]
    ELSE IF api_ok
    THEN [ value |-> tm, cached |-> FALSE, requested |-> TRUE,
           last_fetch |-> tm, cached_data |-> tm ]
    ELSE [ value |-> None, cached |-> FALSE, requested |-> TRUE,
           last_fetch |-> last_fetch, cached_data |-> cached_data ]

\* The weather service over two days.  args holds the wall clock (s),
\* self.last_fetch and self.cached_data; returned is what the last call of
\* get_current_weather handed back, with the age of the value.
WeatherInstants ==
    { 0, 300, 599, 600, 900, 43200, 86399, 86400, 86700, 86999, 87000, 87300 }
WeatherCalls ==
    [ call : { "get_current_weather" }, clock : { 0 }, configured : BOOLEAN,
      last_fetch : { None }, cached_data : { None } ]

WeatherInit == Studying(WeatherCalls)

\* The clock moves on to a later instant.
WeatherWait(tm) ==
    /\ args.call = "get_current_weather"
    /\ tm > args.clock
    /\ args' = [ args EXCEPT !.clock = tm ]
    /\ UNCHANGED returned
    /\ CollectorIdle

\* weather_service.py:26-78: a call of get_current_weather.
WeatherAsked(api_ok) ==
    /\ args.call = "get_current_weather"
    /\ LET out == get_current_weather(args.last_fetch, args.cached_data, args.clock,
                                      args.configured, api_ok)
       IN  /\ args' = [ args EXCEPT !.last_fetch = out.last_fetch,
                                    !.cached_data = out.cached_data ]
           /\ returned' = [ done |-> TRUE, value |-> out.value, cached |-> out.cached,
                            requested |-> out.requested, at |-> args.clock ]
    /\ CollectorIdle

WeatherSpec ==
    WeatherInit /\ [][(\E tm \in WeatherInstants : WeatherWait(tm))
                        \/ (\E api_ok \in BOOLEAN : WeatherAsked(api_ok))]_vars

\* A long run of one loop thread, for the consecutive failures of lines
\* 298-306: the collector is started and its thread runs iteration after
\* iteration, 30 s apart (line 16).  args counts the iterations.
MaxCycles == 7
CycleResults == { FetchRaises, 30, 2000 }
DetectorInit ==
    /\ now = 0
    /\ running = TRUE
    /\ thread = 1
    /\ pc = [ t \in Threads |-> IF t = 1 THEN "tick"
                                ELSE IF t <= MaxThreads THEN "unborn" ELSE "absent" ]
    /\ caller_pc = "idle"
    /\ last_connection_state = TRUE
    /\ outage_start_time = None
    /\ consecutive_failures = 0
    /\ weather_collection_counter = 0
    /\ performance_analysis_counter = 0
    /\ latency_ms = None
    /\ severity = "none"
    /\ raised = "none"
    /\ metrics = << >>
    /\ outages = << >>
    /\ scenario = << >>
    /\ args = [ call |-> "_collection_loop", cycles |-> 0 ]
    /\ returned = Pending

\* data_collector.py:272-314: one iteration of the loop, from the return
\* of get_status to the next test of running, which the thread passes.
DetectorCycle(result, store_ok, rollup) ==
    /\ pc[1] = "tick"
    /\ args.cycles < MaxCycles
    /\ LET tm == now + Seconds(30)
           c  == collect_data_point(result, tm, store_ok)
           e  == LoopExcept(rollup = "raises", consecutive_failures, c.lcs, c.ost, tm)
       IN
       /\ now' = tm
       /\ latency_ms' = c.latency_ms
       /\ severity' = c.severity
       /\ raised' = c.raised
       /\ metrics' = c.metrics
       /\ weather_collection_counter' =
            CounterStep(weather_collection_counter, weather_collection_interval)
       /\ performance_analysis_counter' =
            CounterStep(performance_analysis_counter, performance_analysis_interval)
       /\ consecutive_failures' = e.cf
       /\ outage_start_time' = e.ost
       /\ last_connection_state' = e.lcs
    /\ args' = [ args EXCEPT !.cycles = @ + 1 ]
    /\ returned' = [ done |-> TRUE, failed |-> rollup = "raises" ]
    /\ UNCHANGED << threads, caller_pc, outages, scenario >>

DetectorSpec ==
    DetectorInit
    /\ [][\E result \in CycleResults, store_ok \in BOOLEAN, rollup \in RollupOutcomes :
            DetectorCycle(result, store_ok, rollup)]_vars

\* The store over a hundred days: samples are inserted, the rollup runs and
\* the old samples are cleaned up, each at a later instant (hours).  args
\* holds the wall clock, the tables metrics, outages and daily_stats and the
\* number of rollups run; returned names the last operation and keeps the
\* samples and the daily rows as they were before it.
SampleInstants == { 10, 12, 6 * 24 + 5, 7 * 24 + 8, 91 * 24 + 10 }
RunInstants == { 24 + 9, 7 * 24 + 11, 8 * 24 + 9, 91 * 24 + 9, 91 * 24 + 11, 98 * 24 + 9 }
KeepDays == { 30, 90 }
RetentionCalls ==
    [ call : { "cleanup_old_data" }, clock : { 0 }, metrics : { << >> },
      outages : OutageTables, daily_stats : { << >> }, runs : { 0 } ]

RetentionInit == Studying(RetentionCalls)

RetentionReturned(op) ==
    [ done |-> TRUE, op |-> op, metrics |-> args.metrics, before |-> args.daily_stats ]

\* database.py:124-138: insert_metric: the collector stores a sample.
RetentionSample(tm) ==
    /\ args.call = "cleanup_old_data"
    /\ tm > args.clock
    /\ args' = [ args EXCEPT !.clock = tm,
                   !.metrics = Append(@, [ timestamp |-> tm, latency_ms |-> 20 + (tm % 7) ]) ]
    /\ returned' = RetentionReturned("insert_metric")
    /\ CollectorIdle

\* database.py:222-259: a run of _calculate_daily_stats.
RetentionRollup(tm) ==
    /\ args.call = "cleanup_old_data"
    /\ args.runs < MaxRuns
    /\ tm > args.clock
    /\ args' = [ args EXCEPT !.clock = tm, !.runs = @ + 1,
                   !.daily_stats = calculate_daily_stats(args.metrics, @, tm) ]
    /\ returned' = RetentionReturned("_calculate_daily_stats")
    /\ CollectorIdle

\* database.py:372-386: a call of cleanup_old_data.
RetentionCleanup(tm, days_to_keep) ==
    /\ args.call = "cleanup_old_data"
    /\ tm > args.clock
    /\ LET out == cleanup_old_data(args.metrics, args.outages, tm, days_to_keep)
       IN  args' = [ args EXCEPT !.clock = tm, !.metrics = out.metrics,
                                 !.outages = out.outages ]
    /\ returned' = RetentionReturned("cleanup_old_data")
    /\ CollectorIdle

RetentionSpec ==
    RetentionInit
    /\ [][(\E tm \in SampleInstants : RetentionSample(tm))
            \/ (\E tm \in RunInstants : RetentionRollup(tm))
            \/ (\E tm \in RunInstants, days_to_keep \in KeepDays :
                    RetentionCleanup(tm, days_to_keep))]_vars

\* croniter(cron_expression, t).get_next(datetime), for the expressions
\* that match every period minutes from midnight ('0 * * * *' is 60): the
\* first matching minute after t (minutes).
CronNext(period, t) == ((t \div period) + 1) * period

\* update_speed_test_schedule that leaves run_count as it is.
update_speed_test_schedule_uncounted(row, last_run, next_run) ==
    IF last_run # None /\ next_run # None
    THEN [ row EXCEPT !.last_run = last_run, !.next_run = next_run ]
    ELSE IF next_run # None THEN [ row EXCEPT !.next_run = next_run ]
    ELSE row

\* database.py:668-682: update_speed_test_schedule, on the row of the
\* schedule.
update_speed_test_schedule(row, last_run, next_run) ==
    IF last_run # None /\ next_run # None
    THEN [ row EXCEPT !.last_run = last_run, !.next_run = next_run,
                      !.run_count = @ + 1 ]
    ELSE IF next_run # None THEN [ row EXCEPT !.next_run = next_run ]
    ELSE row

\* speed_test.py:307-336: the loop over the enabled schedules, from the
\* i-th row on (the rows are in the order of their names, database.py:663).
\* writes counts the calls of update_speed_test_schedule made so far; the
\* store refuses the one numbered fails_at - 1 (0: none; 1 is the read of
\* line 304), and its exception ends the loop.  dispatched lists the test
\* threads started.
RECURSIVE ScheduleLoop(_, _, _, _, _, _)
ScheduleLoop(schedules, i, current_time, writes, fails_at, dispatched) ==
    IF i > Len(schedules)
    THEN [ schedules |-> schedules, dispatched |-> dispatched, raised |-> FALSE ]
    ELSE
    LET schedule == schedules[i]
        refused  == fails_at = writes + 2
    IN
    IF ~schedule.enabled
    THEN ScheduleLoop(schedules, i + 1, current_time, writes, fails_at, dispatched)
    ELSE IF schedule.next_run = None
    THEN IF refused
         THEN [ schedules |-> schedules, dispatched |-> dispatched, raised |-> TRUE ]
         ELSE ScheduleLoop(
                [ schedules EXCEPT ![i] = update_speed_test_schedule(
                      @, None, CronNext(schedule.period, current_time)) ],
                i + 1, current_time, writes + 1, fails_at, dispatched)
    ELSE IF current_time >= schedule.next_run
    THEN LET started == Append(dispatched, [ id |-> schedule.id, at |-> current_time ])
         IN  IF refused
             THEN [ schedules |-> schedules, dispatched |-> started, raised |-> TRUE ]
             ELSE ScheduleLoop(
                    [ schedules EXCEPT ![i] = update_speed_test_schedule(
                          @, current_time, CronNext(schedule.period, current_time)) ],
                    i + 1, current_time, writes + 1, fails_at, started)
    ELSE ScheduleLoop(schedules, i + 1, current_time, writes, fails_at, dispatched)

\* speed_test.py:301-339: one pass of the scheduler loop at current_time.
\* The except clause of line 338 catches what the store raised.
scheduler_pass(schedules, current_time, fails_at, dispatched) ==
    IF fails_at = 1
    THEN [ schedules |-> schedules, dispatched |-> dispatched, raised |-> TRUE ]
    ELSE ScheduleLoop(schedules, 1, current_time, 0, fails_at, dispatched)

\* The scheduler over three hours.  args holds the wall clock (minutes),
\* table speed_test_schedules and the test threads started so far;
\* returned keeps the table and the number of threads before the last
\* pass and whether the store refused an operation of the pass.  The
\* schedules are created without next_run (database.py:647-650).
PassInstants == { 10, 11, 60, 61, 119, 120, 121, 180 }
ScheduleRow(id, period, enabled) ==
    [ id |-> id, period |-> period, enabled |-> enabled, last_run |-> None,
      next_run |-> None, run_count |-> 0 ]
ScheduleTables ==
    { << ScheduleRow(1, 60, e1), ScheduleRow(2, p2, e2) >> :
        e1 \in BOOLEAN, e2 \in BOOLEAN, p2 \in { 60, 120 } }
SchedulerCalls ==
    [ call : { "_scheduler_loop" }, clock : { 0 }, schedules : ScheduleTables,
      dispatched : { << >> } ]

SchedulerInit == Studying(SchedulerCalls)

\* speed_test.py:299-342: a pass of the scheduler loop after its sleep.
SchedulerPass(tm, fails_at) ==
    /\ args.call = "_scheduler_loop"
    /\ tm > args.clock
    /\ LET out == scheduler_pass(args.schedules, tm, fails_at, args.dispatched)
       IN  /\ args' = [ args EXCEPT !.clock = tm, !.schedules = out.schedules,
                                    !.dispatched = out.dispatched ]
           /\ returned' = [ done |-> TRUE, before |-> args.schedules,
                            threads_before |-> Len(args.dispatched),
                            raised |-> out.raised ]
    /\ CollectorIdle

SchedulerSpec ==
    SchedulerInit
    /\ [][\E tm \in PassInstants, fails_at \in 0..3 : SchedulerPass(tm, fails_at)]_vars

\* The scheduler of the speed tests with the calls of start_scheduler and
\* stop_scheduler, over one enabled hourly schedule and a store that takes
\* every read and write.  args holds the wall clock (minutes),
\* self.scheduler_running, self.scheduler_thread (0: None), the position of
\* the caller and of each loop thread, the row each thread read in its
\* pass with the time it read at line 305, the row of the schedule and the
\* test threads started, each with the due time it was started for.
LoopThreads == { 1, 2 }
LifeInstants == { 30, 60, 61, 120 }
SchedulerLifeCalls ==
    [ call : { "start_scheduler" }, clock : { 0 },
      scheduler_running : { FALSE }, scheduler_thread : { 0 },
      caller : { "idle" },
      loop : { [ t \in LoopThreads |-> [ pc |-> "unborn", current_time |-> None,
                                        schedule |-> ScheduleRow(1, 60, TRUE) ] ] },
      schedule : { ScheduleRow(1, 60, TRUE) },
      dispatched : { << >> } ]

SchedulerLifeInit == Studying(SchedulerLifeCalls)

\* The clock moves on to a later instant.
LifeTick(tm) ==
    /\ args.call = "start_scheduler"
    /\ tm > args.clock
    /\ args' = [ args EXCEPT !.clock = tm ]
    /\ returned' = [ done |-> TRUE ]
    /\ CollectorIdle

\* speed_test.py:282-290: start_scheduler.
StartScheduler ==
    /\ args.call = "start_scheduler"
    /\ args.caller = "idle"
    /\ IF args.scheduler_running
       THEN UNCHANGED args
       ELSE \E t \in LoopThreads :
              /\ args.loop[t].pc \in { "unborn", "done" }
              /\ \A u \in LoopThreads : u < t => args.loop[u].pc \notin { "unborn", "done" }
              /\ args' = [ args EXCEPT !.scheduler_running = TRUE,
                                       !.scheduler_thread = t,
                                       !.loop[t].pc = "test" ]
    /\ returned' = [ done |-> TRUE ]
    /\ CollectorIdle

\* speed_test.py:292-295: stop_scheduler clears the flag and joins the
\* thread.
StopSchedulerEnter ==
    /\ args.call = "start_scheduler"
    /\ args.caller = "idle"
    /\ args' = [ args EXCEPT !.scheduler_running = FALSE,
                   !.caller = IF args.scheduler_thread # 0 THEN "join" ELSE "idle" ]
    /\ returned' = [ done |-> TRUE ]
    /\ CollectorIdle

\* speed_test.py:296-297: join(timeout=10) returns, because the thread
\* ended or because the 10 s ran out before the sleep of 60 s (line 342)
\* or the pass of the thread was over.
StopSchedulerJoin ==
    /\ args.call = "start_scheduler"
    /\ args.caller = "join"
    /\ args' = [ args EXCEPT !.caller = "idle" ]
    /\ returned' = [ done |-> TRUE ]
    /\ CollectorIdle

\* speed_test.py:301: while self.scheduler_running, at the start of the
\* thread and after each sleep.
SchedulerTest(t) ==
    /\ args.call = "start_scheduler"
    /\ args.loop[t].pc \in { "test", "sleep" }
    /\ args' = [ args EXCEPT !.loop[t].pc =
                   IF args.scheduler_running THEN "read" ELSE "done" ]
    /\ returned' = [ done |-> TRUE ]
    /\ CollectorIdle

\* speed_test.py:304-305: the pass reads the enabled schedules and the
\* clock.
SchedulerRead(t) ==
    /\ args.call = "start_scheduler"
    /\ args.loop[t].pc = "read"
    /\ args' = [ args EXCEPT !.loop[t] = [ pc |-> "handle", current_time |-> args.clock,
                                          schedule |-> args.schedule ] ]
    /\ returned' = [ done |-> TRUE ]
    /\ CollectorIdle

\* speed_test.py:307-336 and 342: the pass handles the row it read, as
\* ScheduleLoop does, writes the row of the schedule and goes to sleep;
\* what it read is gone with the pass.
SchedulerHandle(t) ==
    /\ args.call = "start_scheduler"
    /\ args.loop[t].pc = "handle"
    /\ LET read == args.loop[t].schedule
           tm   == args.loop[t].current_time
           out  == ScheduleLoop(<< read >>, 1, tm, 0, 0, args.dispatched)
           due  == read.next_run # None /\ tm >= read.next_run
       IN  args' = [ args EXCEPT
                       !.loop[t] = [ pc |-> "sleep", current_time |-> None,
                                     schedule |-> ScheduleRow(1, 60, TRUE) ],
                       !.schedule = IF read.next_run = None
                                    THEN update_speed_test_schedule(@, None, out.schedules[1].next_run)
                                    ELSE IF due
                                    THEN update_speed_test_schedule(@, tm, out.schedules[1].next_run)
                                    ELSE @,
                       !.dispatched = IF due
                                      THEN Append(@, [ id |-> read.id, at |-> tm,
                                                       due |-> read.next_run ])
                                      ELSE @ ]
    /\ returned' = [ done |-> TRUE ]
    /\ CollectorIdle

SchedulerLifeNext ==
    \/ \E tm \in LifeInstants : LifeTick(tm)
    \/ StartScheduler
    \/ StopSchedulerEnter
    \/ StopSchedulerJoin
    \/ \E t \in LoopThreads : SchedulerTest(t)
    \/ \E t \in LoopThreads : SchedulerRead(t)
    \/ \E t \in LoopThreads : SchedulerHandle(t)

SchedulerLifeSpec == SchedulerLifeInit /\ [][SchedulerLifeNext]_vars

\* Runs of the collector with room for one thread more than Spec has, so
\* that a thread can be started while another is still alive, in which
\* the link is good or the fetch raises and the store accepts every write.
\* A thread that sleeps wakes up within a second (lines 311-314): LoopTest
\* is fair.
LifecycleInit ==
    /\ Constructed
    /\ pc = [ t \in Threads |-> "unborn" ]
    /\ args = NoCall
    /\ returned = Pending

LifecycleNext ==
    \/ Start
    \/ \E t \in Threads : LoopTest(t)
    \/ \E t \in Threads, result \in { 25, FetchRaises }, tm \in Instants :
            LoopIteration(t, result, tm, TRUE, "not_due")
    \/ StopEnter
    \/ StopGuard
    \/ \E tm \in Instants : StopFinalize(tm, TRUE)

Lifecycle ==
    /\ LifecycleInit
    /\ [][LifecycleNext]_vars
    /\ \A t \in Threads : WF_vars(LoopTest(t))

TypeOK ==
    /\ now \in Instants \cup { 0 }
    /\ running \in BOOLEAN
    /\ thread \in { 0 } \cup Threads
    /\ pc \in [ Threads -> { "absent", "unborn", "wait", "tick", "done" } ]
    /\ caller_pc \in { "idle", "stop", "join" }
    /\ last_connection_state \in BOOLEAN
    /\ outage_start_time \in Instants \cup { None }
    /\ consecutive_failures \in Nat
    /\ weather_collection_counter \in 0..(weather_collection_interval - 1)
    /\ performance_analysis_counter \in 0..(performance_analysis_interval - 1)
    /\ latency_ms \in { None, 0, 25, 30, 2000 }
    /\ severity \in { "none", "minor", "major", "critical" }
    /\ raised \in { "none", "fetch", "AttributeError", "store" }
    /\ Len(metrics) <= Horizon
    /\ Len(outages) <= Horizon
    /\ scenario \in UNION { [ 1..n -> Instants ] : n \in 0..3 }

\* -------------------------------------------------------------- properties

\* A step that is one iteration of the loop body of some thread.
IsTick == \E t \in Threads : pc[t] = "tick" /\ pc'[t] # "tick"

\* The rows of the outages table that start at a given instant.
OutagesFrom(start_time) ==
    { i \in 1..Len(outages) : outages[i].start_time = start_time }

\* C1: after the three ticks of the end-to-end scenario (30 ms with the
\* link UP and no outage open, a fetch that raises, 25 ms), less than a
\* minute apart, the store holds exactly one outage record that starts at
\* tick 2; it ends at tick 3, its duration is the whole seconds between the
\* two ticks, the severity computed for it is minor, and the detector is UP
\* again with no outage open.
C1_ScenarioLeavesOneMinorOutage ==
    ( Len(scenario) = 3 /\ scenario[3] - scenario[2] < Seconds(60) ) =>
        /\ Cardinality(OutagesFrom(scenario[2])) = 1
        /\ \A i \in OutagesFrom(scenario[2]) :
              /\ outages[i].end_time = scenario[3]
              /\ outages[i].duration_seconds =
                    (scenario[3] - scenario[2]) \div 1000
        /\ severity = "minor"
        /\ outage_start_time = None
        /\ last_connection_state

\* The three ticks of the scenario have happened, 30 s apart.
C1_ScenarioSeen ==
    Len(scenario) = 3 /\ scenario[3] - scenario[2] = Seconds(30)

\* C2: a tick that finds the flag DOWN and an outage open and reads a
\* latency with 0 < latency < 2000 appends exactly one record to the
\* outages table, with the open outage's start, the tick's timestamp as end
\* and reason "Connection restored", and leaves no outage open and the
\* flag UP.
C2_RecoveryPersistsOutage ==
    [][ ( /\ IsTick
          /\ ~last_connection_state
          /\ outage_start_time # None
          /\ latency_ms' > 0 /\ latency_ms' < 2000 )
        => /\ Len(outages') = Len(outages) + 1
           /\ SubSeq(outages', 1, Len(outages)) = outages
           /\ outages'[Len(outages')].start_time = outage_start_time
           /\ outages'[Len(outages')].end_time = now'
           /\ outages'[Len(outages')].reason = "Connection restored"
           /\ outage_start_time' = None
           /\ last_connection_state' ]_vars

\* The severity the specification assigns to an outage of a duration (ms).
SeverityAsSpecified(duration) ==
    IF duration < Seconds(60) THEN "minor"
    ELSE IF duration < Seconds(1800) THEN "major"
    ELSE "critical"

\* C3: the severity a recovery tick computes for the outage it closes is
\* minor under 60 s, major from 60 s to under 1800 s, critical from 1800 s.
C3_SeverityThresholds ==
    [][ ( IsTick /\ severity' # "none" )
        => severity' = SeverityAsSpecified(now' - outage_start_time) ]_vars

\* A recovery tick has computed the severity of an outage of exactly 60 s.
C3_SixtySecondOutage ==
    severity # "none" /\ now - outage_start_time = Seconds(60)

\* The rows of the outages table that are open / closed.
OpenOutages == { i \in 1..Len(outages) : outages[i].end_time = None }
ClosedOutages == { i \in 1..Len(outages) : outages[i].end_time # None }

\* C4: whatever ticks, start and stop calls have happened, the outages table
\* holds at most one row without an end, and the collector tracks at most
\* one open outage: its single slot is empty or holds one instant.
C4_AtMostOneOpenOutage ==
    /\ Cardinality(OpenOutages) <= 1
    /\ outage_start_time = None \/ outage_start_time \in Instants

\* Two shutdowns have each written a row while the collector tracks an
\* outage.
C4_TwoRowsAndTrackedOutage ==
    Len(outages) >= 2 /\ outage_start_time # None

\* C5 as stated: every closed row ends after it starts and its
\* duration_seconds is exactly the time from start to end.
C5_DurationExact ==
    \A i \in ClosedOutages :
        /\ outages[i].end_time > outages[i].start_time
        /\ Seconds(outages[i].duration_seconds) =
              outages[i].end_time - outages[i].start_time

\* C5 (amended): every closed row ends after it starts and its
\* duration_seconds is the time from start to end cut to whole seconds.
C5_DurationWholeSeconds ==
    \A i \in ClosedOutages :
        /\ outages[i].end_time > outages[i].start_time
        /\ Seconds(outages[i].duration_seconds) <=
              outages[i].end_time - outages[i].start_time
        /\ outages[i].end_time - outages[i].start_time <
              Seconds(outages[i].duration_seconds + 1)

\* A closed row whose outage lasted a fraction of a second more than a
\* whole number of seconds.
C5_FractionalOutageClosed ==
    \E i \in ClosedOutages :
        (outages[i].end_time - outages[i].start_time) % 1000 # 0

\* C6: on a tick whose fetch succeeds a latency is read (0 when the status
\* has no latency field); a latency of 0 or of 2000 and more with the flag
\* UP moves the detector to DOWN with the outage starting at the tick's
\* timestamp, and a latency strictly between 0 and 2000 with the flag UP,
\* in a tick in which nothing raises, leaves the flag UP and no outage open.
C6_ConnectivityPredicate ==
    [][ ( IsTick /\ raised' # "fetch" ) =>
          /\ latency_ms' >= 0
          /\ ( last_connection_state
                 /\ ~(latency_ms' > 0 /\ latency_ms' < 2000) )
               => ( ~last_connection_state' /\ outage_start_time' = now' )
          /\ ( last_connection_state
                 /\ latency_ms' > 0 /\ latency_ms' < 2000
                 /\ raised' = "none" /\ consecutive_failures' = 0 )
               => ( last_connection_state'
                    /\ outage_start_time' = outage_start_time ) ]_vars

\* A tick has read a latency of 0 or of 2000 with the flag UP, and the
\* detector is DOWN with the outage starting at that tick.
C6_DownOnBadLatency ==
    /\ latency_ms \in { 0, 2000 }
    /\ raised = "none"
    /\ ~last_connection_state
    /\ outage_start_time = now

\* C7: a tick whose fetch raises with the flag UP leaves the flag DOWN and
\* the outage starting at the time of the failure; with the flag already
\* DOWN it leaves the start of the outage as it was.
C7_FetchFailureIsDownTransition ==
    [][ ( IsTick /\ raised' = "fetch" ) =>
          IF last_connection_state
          THEN ~last_connection_state' /\ outage_start_time' = now'
          ELSE ~last_connection_state'
               /\ outage_start_time' = outage_start_time ]_vars

\* A fetch has raised in a tick later than the one that opened the outage.
C7_FetchFailureWhileDown ==
    /\ raised = "fetch"
    /\ ~last_connection_state
    /\ outage_start_time # None
    /\ outage_start_time < now

\* A step in which a call of stop() returns or raises.
StopReturns == caller_pc \in { "stop", "join" } /\ caller_pc' = "idle"

\* The step appends one "System shutdown" row for the open outage, ending
\* at the time the step reads.
ShutdownRowAppended ==
    /\ Len(outages') = Len(outages) + 1
    /\ SubSeq(outages', 1, Len(outages)) = outages
    /\ outages'[Len(outages')].reason = "System shutdown"
    /\ outages'[Len(outages')].start_time = outage_start_time
    /\ outages'[Len(outages')].end_time = now'

C9_OneSamplePerSuccessfulFetch ==
    [][ ( IsTick /\ raised' # "store" ) =>
          IF raised' = "fetch"
          THEN metrics' = metrics
          ELSE metrics' = Append(metrics, [ timestamp |-> now' ]) ]_vars

\* A tick has read a good latency with the flag DOWN and an outage open.
C9_RecoveryTick ==
    /\ raised = "AttributeError"
    /\ latency_ms > 0 /\ latency_ms < 2000

\* C10: whatever is raised inside an iteration, the thread goes from the
\* iteration to the sleep; from the sleep it goes to the next iteration
\* while running is set; and it ends only when running is not set.
C10_LoopSurvivesExceptions ==
    [][ \A t \in Threads :
          /\ ( pc[t] = "tick" /\ pc'[t] # "tick" ) => pc'[t] = "wait"
          /\ ( pc[t] = "wait" /\ pc'[t] # "wait" /\ running )
               => pc'[t] = "tick"
          /\ ( pc[t] # "done" /\ pc'[t] = "done" ) => ~running ]_vars

\* A thread is in an iteration after one in which collect_data_point caught
\* an exception and the rollup raised.
C10_TickAfterFailedTick ==
    \E t \in Threads :
        /\ pc[t] = "tick"
        /\ running
        /\ consecutive_failures >= 1
        /\ ~last_connection_state

\* C11: consecutive_failures goes up by one in every tick in which the
\* collection raises (the fetch, the recording of the outage or the insert
\* of the sample), and any other tick leaves it one higher (the rollup
\* raised) or at 0.
C11_FailedTicksCounted ==
    [][ IsTick =>
          /\ raised' # "none"
               => consecutive_failures' = consecutive_failures + 1
          /\ consecutive_failures' \in { 0, consecutive_failures + 1 } ]_vars

\* A tick whose fetch raised has ended.
C11_FetchRaisedInTick ==
    raised = "fetch" /\ \E t \in Threads : pc[t] = "wait"

\* C12: while the collector runs no thread is started, and a step of the
\* caller that is not part of stop() (a call of start()) changes nothing of
\* the collector.
C12_StartIdempotent ==
    [][ running =>
          /\ thread' = thread
          /\ \A t \in Threads :
               pc[t] \in { "absent", "unborn", "done" } => pc'[t] = pc[t]
          /\ ( caller_pc = "idle" /\ caller_pc' = "idle" /\ pc' = pc )
               => UNCHANGED << running, detector, counters, metrics,
                               outages >> ]_vars

\* The collector runs, has collected, and there is room for a second
\* thread: a call of start() could start one.
C12_RunningWithRoom ==
    /\ running
    /\ caller_pc = "idle"
    /\ Len(metrics) >= 1
    /\ \E t \in Threads : pc[t] \in { "wait", "tick" }
    /\ \E t \in Threads : pc[t] = "unborn"

LatencyPenalty(latency) ==
    CASE latency > 100 -> 30 [] latency > 75 /\ latency <= 100 -> 20
      [] latency > 50 /\ latency <= 75 -> 10 [] OTHER -> 0
DownloadPenalty(mbps) ==
    CASE mbps < 10 -> 25 [] mbps >= 10 /\ mbps < 25 -> 15
      [] mbps >= 25 /\ mbps < 50 -> 5 [] OTHER -> 0
UploadPenalty(mbps) ==
    CASE mbps < 3 -> 25 [] mbps >= 3 /\ mbps < 8 -> 15
      [] mbps >= 8 /\ mbps < 15 -> 5 [] OTHER -> 0
ObstructionPenalty(tenths) ==
    CASE tenths > 100 -> 20 [] tenths > 50 /\ tenths <= 100 -> 15
      [] tenths > 10 /\ tenths <= 50 -> 10
      [] tenths > 1 /\ tenths <= 10 -> 5 [] OTHER -> 0
SnrPenalty(snr_good) == IF snr_good THEN 0 ELSE 10

\* C14: the quality score is 100 less one penalty of each bucket, not less
\* than 0 and not more than 100; it is 100 for (20, 100, 20, 0, true) and 0
\* for (150, 5, 1, 15 %, false).
C14_QualityScore ==
    ( returned.done /\ args.call = "calculate_quality_score" ) =>
        LET raw == 100 - LatencyPenalty(args.latency)
                       - DownloadPenalty(args.download_mbps)
                       - UploadPenalty(args.upload_mbps)
                       - ObstructionPenalty(args.obstruction)
                       - SnrPenalty(args.snr_good)
        IN  /\ returned.value \in 0..100
            /\ raw < 0 => returned.value = 0
            /\ raw >= 0 => returned.value = raw
            /\ ( args.latency = 20 /\ args.download_mbps = 100
                 /\ args.upload_mbps = 20 /\ args.obstruction = 0
                 /\ args.snr_good ) => returned.value = 100
            /\ ( args.latency = 150 /\ args.download_mbps = 5
                 /\ args.upload_mbps = 1 /\ args.obstruction = 150
                 /\ ~args.snr_good ) => returned.value = 0

\* The score of the worst sample has been computed: its penalties add up
\* to 110 and the score is held at 0.
C14_WorstSampleScored ==
    /\ returned.done
    /\ args.call = "calculate_quality_score"
    /\ args.latency = 150 /\ args.download_mbps = 5 /\ args.upload_mbps = 1
    /\ args.obstruction = 150 /\ ~args.snr_good
    /\ returned.value = 0

\* The positions of a throughput list with a sample above 1 Mbps, those of
\* its last 60 points with a non-zero sample, and the mean in Mbps of the
\* samples at a set of positions.
ActiveAt(seq) == { i \in DOMAIN seq : seq[i] > 1000000 }
RecentAt(seq) == { i \in DOMAIN seq : i > Len(seq) - 60 /\ seq[i] > 0 }
RECURSIVE SumAt(_, _)
SumAt(seq, at) ==
    IF at = {} THEN 0
    ELSE LET i == CHOOSE j \in at : TRUE
         IN  seq[i] + SumAt(seq, at \ { i })
MeanAt(seq, at) == [ num |-> SumAt(seq, at), den |-> Cardinality(at) * 1000000 ]

\* C15: speed-data resolution, in the collector and in the application,
\* follows the ordered fallback: with a sample above 1 Mbps in both
\* directions the result is the mean of only those samples; otherwise, with
\* non-zero samples in the last 60 points of both directions, the mean of
\* those; otherwise the instantaneous throughput of the status snapshot,
\* when there is one.
C15_OrderedFallback ==
    (returned.done /\ args.call \in { "get_speed_data", "app_get_speed_data" }) =>
        LET down == args.history.downlink
            up   == args.history.uplink
            s    == args.status
            v    == returned.value
        IN  IF ActiveAt(down) # {} /\ ActiveAt(up) # {}
            THEN /\ v.kind = "measured"
                 /\ v.download_mbps = MeanAt(down, ActiveAt(down))
                 /\ v.upload_mbps = MeanAt(up, ActiveAt(up))
            ELSE IF RecentAt(down) # {} /\ RecentAt(up) # {}
            THEN /\ v.kind = "measured"
                 /\ v.download_mbps = MeanAt(down, RecentAt(down))
                 /\ v.upload_mbps = MeanAt(up, RecentAt(up))
            ELSE s.kind = "snapshot" =>
                 /\ v.kind = "measured"
                 /\ v.download_mbps.den = 1000000
                 /\ v.download_mbps.num = (IF s.has_downlink THEN s.downlink ELSE 0)
                 /\ v.upload_mbps.den = 1000000
                 /\ v.upload_mbps.num = (IF s.has_uplink THEN s.uplink ELSE 0)

\* A history with samples above 1 Mbps in both directions and a slower
\* sample beside them has been resolved.
C15_MixedHistoryResolved ==
    /\ returned.done
    /\ args.call = "get_speed_data"
    /\ ActiveAt(args.history.downlink) # {}
    /\ ActiveAt(args.history.uplink) # {}
    /\ \E i \in DOMAIN args.history.downlink :
          args.history.downlink[i] \in 1..1000000

\* C16: with neither a throughput history nor a status snapshot, speed-data
\* resolution returns the "no data" marker, which no measured throughput
\* equals.
C16_NoDataMarker ==
    (/\ returned.done
     /\ args.call \in { "get_speed_data", "app_get_speed_data" }
     /\ args.history.kind # "data"
     /\ args.status.kind = "raises") => returned.value.kind = "none"

\* The collector resolved its speed data with no history and no status.
C16_CollectorWithoutSources ==
    /\ returned.done
    /\ args.call = "get_speed_data"
    /\ args.history.kind = "raises"
    /\ args.status.kind = "raises"

\* The events a stored sample calls for, in the order of the code, and the
\* types of the events a call appended.
EventsDue(sample) ==
    (IF sample.quality_score < 50 THEN << "poor_performance" >> ELSE << >>)
    \o (IF sample.download_mbps > 50 \/ sample.upload_mbps > 20
        THEN << "high_speed" >> ELSE << >>)
EventsAppended ==
    [ i \in 1..(Len(returned.value.db.events) - Len(args.db.events)) |->
        returned.value.db.events[Len(args.db.events) + i].event_type ]
SampleStored ==
    /\ returned.done
    /\ args.call = "store_data_point"
    /\ Len(returned.value.db.metrics) = Len(args.db.metrics) + 1
EventsKept ==
    /\ Len(returned.value.db.events) >= Len(args.db.events)
    /\ SubSeq(returned.value.db.events, 1, Len(args.db.events)) = args.db.events

\* C17: on each tick that stores a sample, a "poor_performance" event is
\* appended iff quality_score < 50 and a "high_speed" event iff download >
\* 50 Mbps or upload > 20 Mbps, no other event is appended, and the events
\* already there are not modified.
C17_EventsOfStoredSample ==
    SampleStored => (EventsKept /\ EventsAppended = EventsDue(args.sample))

\* C17, amended: the same of each tick that stores a sample and whose event
\* writes all succeed; a tick with a failing event write appends only the
\* events due before it, and no tick modifies the events already there.
C17_EventsOfStoredSampleUnlessWriteFails ==
    SampleStored =>
        /\ EventsKept
        /\ ~returned.value.raised => EventsAppended = EventsDue(args.sample)
        /\ returned.value.raised =>
              /\ Len(EventsAppended) < Len(EventsDue(args.sample))
              /\ EventsAppended =
                    SubSeq(EventsDue(args.sample), 1, Len(EventsAppended))

\* A fast sample of poor quality has been stored, with its two events
\* behind an earlier one.
C17_PoorAndFastSampleStored ==
    /\ SampleStored
    /\ ~returned.value.raised
    /\ args.db.events # << >>
    /\ args.sample.quality_score < 50
    /\ args.sample.download_mbps > 50
    /\ Len(returned.value.db.events) = Len(args.db.events) + 2

\* C18: weather sampling is attempted on exactly every 10th tick and the
\* performance analysis on exactly every 60th, whatever the collection of
\* the tick did, and each counter is reset to 0 when its task is run, so
\* that it stays in [0, interval).
C18_PeriodicTasks ==
    args.call = "_collection_loop" =>
        /\ weather_collection_counter \in 0..(weather_collection_interval - 1)
        /\ performance_analysis_counter \in 0..(performance_analysis_interval - 1)
        /\ weather_collection_counter = args.ticks % 10
        /\ performance_analysis_counter = args.ticks % 60
        /\ returned.done =>
             /\ returned.weather <=> (args.ticks % 10 = 0)
             /\ returned.analysis <=> (args.ticks % 60 = 0)
             /\ returned.weather => weather_collection_counter = 0
             /\ returned.analysis => performance_analysis_counter = 0

\* The 120th tick, whose collection raised, ran both tasks.
C18_BothTasksOnTick120 ==
    /\ args.call = "_collection_loop"
    /\ args.ticks = 120
    /\ args.collection = "raised"
    /\ returned.done /\ returned.weather /\ returned.analysis

\* C19: while the collector runs, the rollup is triggered exactly once in
\* each clock hour, for any collection interval.
C19_OneTriggerPerHour ==
    (args.call = "rollup_schedule" /\ args.completed # None) => args.completed = 1

\* A collector with the application's interval of 30 s ran through a whole
\* clock hour.
C19_HourOverAtThirtySeconds ==
    /\ args.call = "rollup_schedule"
    /\ args.interval = 30
    /\ args.completed # None

\* C20: the rollup is idempotent: a run that follows another, with the
\* samples unchanged, leaves the aggregates (avg, min, max, data_points) of
\* every daily row as they were.
C20_RollupIdempotent ==
    (args.call = "_calculate_daily_stats" /\ returned.done /\ args.runs >= 2) =>
        /\ DOMAIN args.daily_stats = DOMAIN returned.before
        /\ \A d \in DOMAIN returned.before :
             args.daily_stats[d] = returned.before[d]

\* The rollup has run a second time over a table with samples of day 0.
C20_SecondRunOverOldestDay ==
    /\ args.call = "_calculate_daily_stats"
    /\ returned.done
    /\ args.runs = 2
    /\ 0 \in DOMAIN returned.before

\* The dates whose row the last run of the rollup wrote, and the samples the
\* table holds for a date.
DatesWritten ==
    { DateOf(args.metrics[i].timestamp) :
        i \in { j \in DOMAIN args.metrics :
                  args.metrics[j].timestamp >= args.clock - 7 * 24 } }
SamplesOfDate(d) ==
    { i \in DOMAIN args.metrics : DateOf(args.metrics[i].timestamp) = d }

\* C21: after a run of the rollup, the data_points of every daily row it
\* wrote is the number of samples stored for that date, the oldest date of
\* the 7-day window included.
C21_DataPointsCountTheDate ==
    (args.call = "_calculate_daily_stats" /\ returned.done) =>
        \A d \in DatesWritten :
            /\ d \in DOMAIN args.daily_stats
            /\ args.daily_stats[d].data_points = Cardinality(SamplesOfDate(d))

\* A run of the rollup wrote the row of day 0, the oldest date of its
\* window, two samples being stored for that date.
C21_OldestDateWritten ==
    /\ args.call = "_calculate_daily_stats"
    /\ returned.done
    /\ 0 \in DatesWritten
    /\ Cardinality(SamplesOfDate(0)) = 2

\* The outages recorded for a date.
OutagesOfDate(d) ==
    { i \in DOMAIN args.outages : DateOf(args.outages[i].start_time) = d }

\* C22: after a run of the rollup, each daily row holds the number of the
\* outages recorded for its date and their summed duration in minutes.
C22_DailyRowHoldsOutages ==
    (args.call = "_calculate_daily_stats" /\ returned.done) =>
        \A d \in DOMAIN args.daily_stats :
            /\ args.daily_stats[d].outage_count = Cardinality(OutagesOfDate(d))
            /\ args.daily_stats[d].total_outage_minutes =
                 SumAt([ i \in DOMAIN args.outages |->
                           args.outages[i].duration_seconds ],
                       OutagesOfDate(d)) \div 60

\* The rollup wrote the row of a date for which two outages are recorded.
C22_RowOfDateWithOutages ==
    /\ args.call = "_calculate_daily_stats"
    /\ returned.done
    /\ \E d \in DOMAIN args.daily_stats : Cardinality(OutagesOfDate(d)) = 2

\* C23: a trend query whose metric is none of download_mbps, upload_mbps,
\* latency_ms, quality_score and obstruction_pct is answered with an error
\* and puts no query to the store.
C23_UnknownMetricRejected ==
    (/\ args.call = "historical_trends"
     /\ returned.done
     /\ args.query.metric \notin
          { "absent", "download_mbps", "upload_mbps", "latency_ms",
            "quality_score", "obstruction_pct" }) =>
        /\ returned.value.error
        /\ returned.value.status >= 400
        /\ returned.value.queried = << >>

\* A trend query for the column timestamp, with a store that answers, was
\* refused.
C23_OtherColumnRefused ==
    /\ args.call = "historical_trends"
    /\ returned.done
    /\ args.query.metric = "timestamp"
    /\ args.query.days_is_int
    /\ args.store_ok
    /\ returned.value.status = 400

\* The samples and the outages of the store that the window of a read query
\* holds.
InWindow(timestamp) == timestamp >= 45 * 24 - 30 * 24
WindowSamples ==
    { i \in DOMAIN args.store.metrics : InWindow(args.store.metrics[i].timestamp) }
WindowOutages ==
    { i \in DOMAIN args.store.outages : InWindow(args.store.outages[i].start_time) }
ReadAnswered ==
    args.call \in { "get_performance_insights", "historical_summary" } /\ returned.done

\* C24: over a window with no sample and no outage the read queries answer
\* with a conservative default: the summary is zeroed and the insights are
\* the empty list.
C24_EmptyWindowDefaults ==
    (ReadAnswered /\ WindowSamples = {} /\ WindowOutages = {}) =>
        /\ returned.value.status = 200
        /\ args.call = "historical_summary" =>
             /\ returned.value.total_measurements = 0
             /\ returned.value.avg_quality_score = 0
             /\ returned.value.outage_count = 0
             /\ returned.value.total_outage_seconds = 0
        /\ args.call = "get_performance_insights" => returned.value.data = << >>

\* The summary of a window with no sample and no outage was asked for.
C24_SummaryOfEmptyWindow ==
    /\ ReadAnswered
    /\ args.call = "historical_summary"
    /\ WindowSamples = {} /\ WindowOutages = {}

\* The types of the findings of an answer.
FindingTypes ==
    { returned.value.data[i].type : i \in DOMAIN returned.value.data }

\* C27: the insights hold a "frequent outages" finding iff the window holds
\* more than 5 outages.
C27_FrequentOutagesFinding ==
    (ReadAnswered /\ args.call = "get_performance_insights") =>
        ("frequent_outages" \in FindingTypes <=> Cardinality(WindowOutages) > 5)

\* The insights of a window with exactly 6 outages were asked for.
C27_SixOutagesInWindow ==
    /\ ReadAnswered
    /\ args.call = "get_performance_insights"
    /\ Cardinality(WindowOutages) = 6

\* The samples of the window taken in an hour of the day, and the hours the
\* claim calls poor: more than 5 samples, of an average quality below 60.
SamplesOfHour(h) ==
    { i \in WindowSamples : args.store.metrics[i].timestamp % 24 = h }
QualitySum(h) ==
    SumAt([ i \in DOMAIN args.store.metrics |-> args.store.metrics[i].quality_score ],
          SamplesOfHour(h))
PoorHoursDue ==
    { h \in 0..23 : /\ Cardinality(SamplesOfHour(h)) > 5
                    /\ QualitySum(h) < 60 * Cardinality(SamplesOfHour(h)) }
HoursReported ==
    { returned.value.data[i].hour :
        i \in { j \in DOMAIN returned.value.data :
                  returned.value.data[j].type = "poor_performance_time" } }

\* C28: the insights report an hour of the day as a poor-performance time
\* iff the average quality of all the samples of that hour in the window is
\* below 60 and the hour has more than 5 samples; at most 3 hours are
\* reported, the worst averages first.
C28_PoorHoursOfAllSamples ==
    (ReadAnswered /\ args.call = "get_performance_insights") =>
        /\ HoursReported \subseteq PoorHoursDue
        /\ Cardinality(HoursReported) = Min(3, Cardinality(PoorHoursDue))
        /\ \A h \in HoursReported : \A g \in PoorHoursDue \ HoursReported :
             QualitySum(h) * Cardinality(SamplesOfHour(g))
               <= QualitySum(g) * Cardinality(SamplesOfHour(h))

\* The insights were asked for of a window in which an hour has six poor
\* samples and six perfect ones, and a sample shows an obstruction.
C28_HourOfMixedQuality ==
    /\ ReadAnswered
    /\ args.call = "get_performance_insights"
    /\ ~returned.value.error
    /\ \E h \in 0..23 :
         /\ Cardinality(SamplesOfHour(h)) = 12
         /\ QualitySum(h) >= 60 * 12

\* Whether quality, latency and download reach the bounds of a grade.
Reaches(quality, max_latency, min_download) ==
    /\ args.quality_score >= quality
    /\ args.latency < max_latency
    /\ args.download > min_download

\* C25: the grade is the first of A (quality >= 90, latency < 30, download
\* > 50), B (80, 50, 25), C (70, 75, 15) and D (60, 100, 10) whose bounds
\* are reached, else F; (95, 20, 60) gives A, (85, 40, 30) gives B and
\* (30, 200, 2) gives F; the upload speed has no part in it.
C25_PerformanceGrade ==
    (args.call = "calculate_performance_grade" /\ returned.done) =>
        LET a == Reaches(90, 30, 50)
            b == Reaches(80, 50, 25)
            c == Reaches(70, 75, 15)
            d == Reaches(60, 100, 10)
            g == returned.value
        IN  /\ g \in { "A", "B", "C", "D", "F" }
            /\ g = "A" <=> a
            /\ g = "B" <=> (~a /\ b)
            /\ g = "C" <=> (~a /\ ~b /\ c)
            /\ g = "D" <=> (~a /\ ~b /\ ~c /\ d)
            /\ g = "F" <=> (~a /\ ~b /\ ~c /\ ~d)
            /\ (args.quality_score = 95 /\ args.latency = 20 /\ args.download = 60)
                 => g = "A"
            /\ (args.quality_score = 85 /\ args.latency = 40 /\ args.download = 30)
                 => g = "B"
            /\ (args.quality_score = 30 /\ args.latency = 200 /\ args.download = 2)
                 => g = "F"

\* A sample of quality 85, latency 40 and download 30 was graded, with no
\* upload speed at all.
C25_SecondExampleGraded ==
    /\ args.call = "calculate_performance_grade"
    /\ returned.done
    /\ args.quality_score = 85 /\ args.latency = 40 /\ args.download = 30
    /\ args.upload = 0

\* The key of a date in the report asked for (the Monday of its week, or its
\* month), the key of a summary, and the dates of the table with a key.
KeyOfDate(d) ==
    IF args.report_type = "weekly" THEN d - (d % 7)
    ELSE IF d < 31 THEN 1 ELSE IF d < 60 THEN 2 ELSE 3
KeyOfSummary(s) == IF args.report_type = "weekly" THEN s.week_start ELSE s.month
DatesOfKey(k) == { d \in DOMAIN args.daily_stats : KeyOfDate(d) = k }
LatencySum(k) ==
    SumAt([ d \in 0..40 |-> IF d \in DOMAIN args.daily_stats
                            THEN args.daily_stats[d].avg_latency_ms ELSE 0 ],
          DatesOfKey(k))
ReportAnswered == args.call = "get_reports" /\ returned.done

\* The reports partition the daily rows: no two summaries share a key, the
\* keys are those of the rows, each summary counts the rows of its key, and
\* its outage count and minutes are the sums over them.
ReportsPartitionRows ==
    LET data == returned.value
    IN  /\ \A i, j \in DOMAIN data :
             KeyOfSummary(data[i]) = KeyOfSummary(data[j]) => i = j
        /\ { KeyOfSummary(data[i]) : i \in DOMAIN data }
             = { KeyOfDate(d) : d \in DOMAIN args.daily_stats }
        /\ \A i \in DOMAIN data :
             LET days == DatesOfKey(KeyOfSummary(data[i]))
             IN  /\ data[i].days_with_data = Cardinality(days)
                 /\ data[i].total_outages =
                      SumAt([ d \in 0..40 |-> IF d \in days
                                THEN args.daily_stats[d].outage_count ELSE 0 ], days)
                 /\ data[i].total_outage_minutes =
                      SumAt([ d \in 0..40 |-> IF d \in days
                                THEN args.daily_stats[d].total_outage_minutes ELSE 0 ],
                            days)

\* C26: the weekly and monthly reports partition the daily rows, and the
\* average of each summary is the unweighted mean of the averages of its
\* days (the average is held in tenths).
C26_ReportsMeanOfDays ==
    ReportAnswered =>
        /\ ReportsPartitionRows
        /\ \A i \in DOMAIN returned.value :
             LET k == KeyOfSummary(returned.value[i])
             IN  returned.value[i].avg_latency_ms * Cardinality(DatesOfKey(k))
                   = 10 * LatencySum(k)

\* C26, amended: the same, the average of each summary being the unweighted
\* mean of the averages of its days rounded to one decimal: a tenth nearest
\* to the mean.
C26_ReportsRoundedMeanOfDays ==
    ReportAnswered =>
        /\ ReportsPartitionRows
        /\ \A i \in DOMAIN returned.value :
             LET k == KeyOfSummary(returned.value[i])
                 n == Cardinality(DatesOfKey(k))
                 e == returned.value[i].avg_latency_ms * n - 10 * LatencySum(k)
             IN  2 * e <= n /\ 0 - 2 * e <= n

\* A weekly report was made of rows of three weeks, one of the weeks having
\* days of unequal numbers of samples.
C26_ThreeWeeksReported ==
    /\ ReportAnswered
    /\ args.report_type = "weekly"
    /\ Len(returned.value) = 3
    /\ \E d, e \in DOMAIN args.daily_stats :
         /\ KeyOfDate(d) = KeyOfDate(e)
         /\ args.daily_stats[d].data_points # args.daily_stats[e].data_points

\* ------------------------------------------------------------------- C29
\* The last call of the engine was a run of a speed test that has returned.
RunReturned == returned.done /\ returned.op = "run_server_speed_test"
\* The run wrote exactly one row to speed_tests, with the status, the test
\* type and the error message of the result it returned.
OneRowOfResult ==
    /\ Len(args.speed_tests) = returned.stored_before + 1
    /\ LET row == args.speed_tests[Len(args.speed_tests)]
       IN  /\ row.status = returned.result.status
           /\ row.test_type = returned.result.test_type
           /\ row.error_message = returned.result.error_message

\* C29 (as stated): a run of run_server_speed_test never raises to its
\* caller and returns a result, and a run that failed has written exactly
\* one row with status failed to speed_tests.
C29_FailedRunIsOneStoredRecord ==
    RunReturned =>
        /\ ~returned.raised
        /\ returned.result.status \in { "completed", "failed" }
        /\ returned.result.status = "failed" =>
               OneRowOfResult /\ args.speed_tests[Len(args.speed_tests)].status = "failed"

\* C29 (amended): a run of run_server_speed_test never raises to its caller
\* and returns a result; a run that failed has written exactly one row with
\* status failed to speed_tests when the store took the write, and no row
\* when the store refused it.
C29_FailedRunStoredUnlessWriteFails ==
    RunReturned =>
        /\ ~returned.raised
        /\ returned.result.status \in { "completed", "failed" }
        /\ returned.result.status = "failed" =>
               IF returned.store_ok
               THEN OneRowOfResult /\ args.speed_tests[Len(args.speed_tests)].status = "failed"
               ELSE Len(args.speed_tests) = returned.stored_before

\* A run in which an exception left the body of the try has returned and
\* its failure is the one row added to speed_tests.
C29_EscapedFailureStored ==
    /\ RunReturned
    /\ returned.result.status = "failed"
    /\ returned.result.method = "failed"
    /\ returned.store_ok
    /\ OneRowOfResult

\* ------------------------------------------------------------------- C30
\* The status of the entry of a test in self.running_tests.
StatusOf(test_id) == args.running_tests[test_id].status
\* A step keeps to the lifecycle of a test: an entry is made as running, a
\* running test stays running or becomes completed or failed, and a
\* completed or failed test keeps its status.
LifecycleStep(test_id) ==
    /\ StatusOf(test_id) = "absent" => StatusOf(test_id)' \in { "absent", "running" }
    /\ StatusOf(test_id) = "running" => StatusOf(test_id)' \in { "running", "completed", "failed" }
    /\ StatusOf(test_id) \in { "completed", "failed" } => StatusOf(test_id)' = StatusOf(test_id)

\* C30: the status of a speed test goes from running to completed or from
\* running to failed and no call of the engine, cancel_test included,
\* changes it afterwards; no test has a final status before it was running.
C30_StatusFinalOnceSet == [][\A test_id \in TestIds : LifecycleStep(test_id)]_vars

\* cancel_test was called on a test that was completed or failed, and the
\* test is cancelled now.
C30_FinishedTestCancelled ==
    /\ returned.done
    /\ returned.op = "cancel_test"
    /\ returned.entry_before \in { "completed", "failed" }
    /\ StatusOf(returned.test_id) = "cancelled"

\* ------------------------------------------------------------------- C31
\* The last call of get_current_weather handed back a value without asking
\* the weather API for it.
CachedValueReturned ==
    returned.done /\ args.call = "get_current_weather" /\ returned.cached

\* C31: get_current_weather hands back the cached weather only while it
\* was fetched less than 600 seconds before the call; the value it hands
\* back without fetching is never older than that.
C31_CacheYoungerThanTenMinutes ==
    CachedValueReturned => returned.at - returned.value < cache_duration

\* The cached weather is a day old and more when get_current_weather is
\* called and answers.
C31_CallWithDayOldCache ==
    /\ returned.done
    /\ args.call = "get_current_weather"
    /\ args.last_fetch # None
    /\ returned.at - args.last_fetch >= 86400

\* ------------------------------------------------------------------- C32
\* The last iteration of the loop stored its sample of a good link.
GoodCollection(lat, exc) == exc = "none" /\ ConnectionOk(lat)

\* C32: an iteration that fails when no outage is open and brings the
\* counter of consecutive failures above 5 leaves the flag DOWN and the
\* start of the outage at the instant of the iteration; below that count
\* a failed iteration whose sample was good opens no outage; and an open
\* outage keeps its start through every iteration.
C32_ForcedDownAfterFiveFailures ==
    [][ /\ ( returned'.failed /\ consecutive_failures' > 5 /\ outage_start_time = None )
              => ( ~last_connection_state' /\ outage_start_time' = now' )
        /\ ( returned'.failed /\ consecutive_failures' <= 5 /\ outage_start_time = None
               /\ GoodCollection(latency_ms', raised') )
              => ( last_connection_state' /\ outage_start_time' = None )
        /\ consecutive_failures' = IF returned'.failed THEN consecutive_failures + 1 ELSE 0
        /\ outage_start_time # None => outage_start_time' = outage_start_time ]_vars

\* The sixth failed iteration in a row stored a sample of a good link and
\* the detector went DOWN in it.
C32_SixthFailureForcesDown ==
    /\ args.call = "_collection_loop"
    /\ returned.done
    /\ consecutive_failures = 6
    /\ GoodCollection(latency_ms, raised)
    /\ ~last_connection_state
    /\ outage_start_time = now

\* ------------------------------------------------------------------- C33
\* The dates that had a sample in the trailing window of the last
\* operation, run at args.clock over the samples as they were before it.
DatesInWindow ==
    { DateOf(returned.metrics[i].timestamp) :
        i \in { j \in DOMAIN returned.metrics :
                  returned.metrics[j].timestamp >= args.clock - RollupWindow } }

\* C33: a run of the rollup leaves the daily row of every date that has no
\* sample in the trailing 7 days as it was, whether the samples of that
\* date are still in the store or were deleted by cleanup_old_data; and
\* cleanup_old_data leaves every daily row as it was.
C33_OldRollupsFrozen ==
    ( args.call = "cleanup_old_data" /\ returned.done ) =>
        \A d \in DOMAIN returned.before :
            ( returned.op = "_calculate_daily_stats" => d \notin DatesInWindow ) =>
                /\ d \in DOMAIN args.daily_stats
                /\ args.daily_stats[d] = returned.before[d]

\* The rollup has run after cleanup_old_data deleted every sample of a date
\* that has a daily row.
C33_RollupAfterCleanup ==
    /\ args.call = "cleanup_old_data"
    /\ returned.done
    /\ returned.op = "_calculate_daily_stats"
    /\ \E d \in DOMAIN returned.before :
          /\ \A i \in DOMAIN returned.metrics : DateOf(returned.metrics[i].timestamp) # d
          /\ d \in DOMAIN args.daily_stats
    /\ DatesInWindow # {}

\* ------------------------------------------------------------------- C34
\* The test threads the last pass started for a schedule.
DispatchedInPass(id) ==
    { k \in (returned.threads_before + 1)..Len(args.dispatched) :
        args.dispatched[k].id = id }
\* What a pass at args.clock owes the i-th schedule: a due schedule gets one
\* test thread, one more run, last_run at the time of the pass and next_run
\* after it; a schedule without next_run gets its next_run and no thread;
\* any other schedule is left as it was.
ScheduleHandled(i) ==
    LET old == returned.before[i]
        new == args.schedules[i]
    IN  IF old.enabled /\ old.next_run # None /\ old.next_run <= args.clock
        THEN /\ Cardinality(DispatchedInPass(old.id)) = 1
             /\ new.run_count = old.run_count + 1
             /\ new.last_run = args.clock
             /\ new.next_run > args.clock
        ELSE IF old.enabled /\ old.next_run = None
        THEN /\ DispatchedInPass(old.id) = {}
             /\ new.next_run # None /\ new.next_run > args.clock
             /\ new.run_count = old.run_count /\ new.last_run = old.last_run
        ELSE DispatchedInPass(old.id) = {} /\ new = old
PassDone == args.call = "_scheduler_loop" /\ returned.done

\* C34 (as stated): after a pass of the scheduler, every enabled schedule
\* that was due has exactly one test thread started in the pass, its
\* run_count one higher, its last_run at the time of the pass and its
\* next_run after it, and every enabled schedule without next_run has its
\* next_run set and no thread started.
C34_PassHandlesEverySchedule ==
    PassDone => \A i \in DOMAIN args.schedules : ScheduleHandled(i)

\* C34 (amended): the same for every pass in which the store took every
\* read and write; in a pass the store refused, each schedule is handled
\* that way or keeps its row, with at most one test thread started for it.
C34_PassHandlesEveryScheduleUnlessStoreFails ==
    PassDone =>
        \A i \in DOMAIN args.schedules :
            \/ ScheduleHandled(i)
            \/ /\ returned.raised
               /\ args.schedules[i] = returned.before[i]
               /\ Cardinality(DispatchedInPass(returned.before[i].id)) <= 1

\* A pass the store took had two schedules due and a thread started for
\* each.
C34_TwoSchedulesDispatched ==
    /\ PassDone
    /\ ~returned.raised
    /\ Len(args.dispatched) = returned.threads_before + 2
    /\ \A i \in DOMAIN args.schedules : args.schedules[i].last_run = args.clock

\* ------------------------------------------------------------------- C35
\* C35: between two iterations of the loop the flag of the detector is
\* DOWN exactly when the start of an open outage is set.
C35_FlagAgreesWithOutageStart ==
    last_connection_state <=> outage_start_time = None

\* A recovery was tried and failed in an iteration after the one that took
\* the detector DOWN, and the detector is still DOWN with its outage open.
C35_DownAfterFailedRecovery ==
    /\ args.call = "_collection_loop"
    /\ returned.done
    /\ raised = "AttributeError"
    /\ ~last_connection_state
    /\ outage_start_time # None
    /\ outage_start_time < now

\* ------------------------------------------------------------------- C36
\* C36: an iteration that takes the detector DOWN sets the start of the
\* outage to its own instant, and an iteration that finds the detector DOWN
\* and leaves it DOWN leaves the start of the outage as it was.
C36_OutageStartKept ==
    [][ /\ ( last_connection_state /\ ~last_connection_state' )
              => outage_start_time' = now'
        /\ ( ~last_connection_state /\ ~last_connection_state' )
              => outage_start_time' = outage_start_time ]_vars

\* The detector has been DOWN for three iterations or more, the last of
\* them with a fetch that raised, six failed iterations in a row among
\* them.
C36_LongDownInterval ==
    /\ args.call = "_collection_loop"
    /\ returned.done
    /\ ~last_connection_state
    /\ outage_start_time # None
    /\ now - outage_start_time >= Seconds(90)
    /\ raised = "fetch"
    /\ consecutive_failures >= 6

\* ------------------------------------------------------------------- C37
\* C37: no two rows of table outages have the same start_time.
C37_OutageRecordedOnce ==
    \A i, j \in 1..Len(outages) :
        i # j => outages[i].start_time # outages[j].start_time

\* The collector was started again after a stop() that recorded the open
\* outage, and the start of that outage is still set.
C37_RestartedWithRecordedOutage ==
    /\ running
    /\ caller_pc = "idle"
    /\ outage_start_time # None
    /\ OutagesFrom(outage_start_time) # {}

\* ------------------------------------------------------------------- C38
\* The loop threads that are inside an iteration of the loop.
Ticking == { t \in Threads : pc[t] = "tick" }

\* C38: at most one loop thread is inside an iteration at any time.
C38_SingleLoopThread == Cardinality(Ticking) <= 1

\* start() has started a thread after a stop() whose join ran out while
\* the thread before was inside an iteration, where it still is.
C38_RestartWhileOldThreadTicks ==
    /\ running
    /\ caller_pc = "idle"
    /\ thread = 2
    /\ pc[1] = "tick"
    /\ pc[2] \in { "wait", "tick" }

\* ------------------------------------------------------------------- C39
\* The threads that are in the scheduler loop.
ActiveLoops == { t \in LoopThreads : args.loop[t].pc \notin { "unborn", "done" } }
\* No two test threads were started for the same due time of a schedule.
DispatchedOncePerDueTime ==
    \A i, j \in DOMAIN args.dispatched :
        ( i # j /\ args.dispatched[i].id = args.dispatched[j].id )
            => args.dispatched[i].due # args.dispatched[j].due

\* C39: at most one thread is in the scheduler loop at any time, and no
\* schedule has two tests dispatched for the same due time.
C39_SingleSchedulerLoop ==
    args.call = "start_scheduler" =>
        Cardinality(ActiveLoops) <= 1 /\ DispatchedOncePerDueTime

\* start_scheduler has started a thread while the thread started before is
\* in its sleep.
C39_RestartDuringSleep ==
    /\ args.call = "start_scheduler"
    /\ args.scheduler_running
    /\ args.caller = "idle"
    /\ args.scheduler_thread = 2
    /\ args.loop[1].pc = "sleep"
    /\ args.loop[2].pc # "unborn"

\* ------------------------------------------------------------------- C40
\* C40: two runs of a speed test that are under way at the same time have
\* different test ids, each its own entry of running_tests.
C40_OwnEntryPerRun ==
    args.call = "speed_test_engine" =>
        \A r1, r2 \in Runners :
            ( r1 # r2 /\ args.runner[r1].pc = "running" /\ args.runner[r2].pc = "running" )
                => args.runner[r1].test_id # args.runner[r2].test_id

\* The manual and the scheduled run were entered in the same second and
\* both have returned; the entry they share holds the result of the
\* scheduled run only.
C40_ManualResultOverwritten ==
    /\ args.call = "speed_test_engine"
    /\ args.runner[1].pc = "returned"
    /\ args.runner[2].pc = "returned"
    /\ args.runner[1].test_id = args.runner[2].test_id
    /\ args.running_tests[args.runner[1].test_id].result.test_type = "scheduled"
====
